---- MODULE Spec2Model ----
(***************************************************************************)
(* The impact-buyer marketplace contract (Stellar/Soroban) as a state      *)
(* machine.  One action per contract entry point; each entry point is an   *)
(* operator from the contract state and the call's arguments to a result   *)
(* (ok / error code / return value / state reached), and the host commits  *)
(* the state of a call that returned and discards that of a call that      *)
(* panicked.  The payment token and the NFT contract are the external      *)
(* collaborators of interfaces.rs.                                         *)
(* The second part is the ngo crate (simplified marketplace, royalties,    *)
(* verification, NGO profiles): its functions over one instance storage    *)
(* and one persistent storage, under the specification NgoSpec.            *)
(***************************************************************************)
EXTENDS Integers, Sequences, FiniteSets, TLC

\* ------------------------------------------------------------------ bounds
MaxProducts == 2
MaxBatch == 2
MaxNgoProducts == 2

\* ------------------------------------------------------- program constants
MaxFeePercentage == 300
FeeDenominator == 1000
LedgerTimestamp == 0
CREATOR_ROYALTY == 5
MARKETPLACE_ROYALTY == 5

\* ------------------------------------------------------------ input sets
Addresses == {"a1", "a2", "a3"}
AdminInputs == {"a1", "a3"}
Market == "market"
NftContract == "nft"
TokenIds == {"NFT001", "NFT002"}
PaymentToken == "token"
None == "None"
\* Option<T>: the empty tuple is None, a one-element tuple is Some(x).
NoneOpt == <<>>
Some(x) == <<x>>
Unwrap(o) == o[1]
NoErr == "ok"
Prices == {-40, 0, 1010}
FeeInputs == {25, MaxFeePercentage, MaxFeePercentage + 1}
MetricsInputs == {"{}", "{carbon_offset:100kg}"}
ListedMetrics == {"{carbon_offset:100kg}"}
ProductIds == 1..(MaxProducts + 1)
RECURSIVE SeqsUpTo(_, _)
SeqsUpTo(S, n) ==
    IF n = 0 THEN {<<>>}
    ELSE LET shorter == SeqsUpTo(S, n - 1)
         IN  shorter \cup {Append(s, x) : s \in {t \in shorter : Len(t) = n - 1}, x \in S}
BatchInputs == SeqsUpTo(ProductIds, MaxBatch)
\* The ngo crate's callers, product ids and listing prices.
\* The payment tokens minted before the contract is used: a3 holds the price
\* of one product and no more.
InitialBalance == [a \in Addresses |-> IF a = "a3" THEN 1010 ELSE 1500]
NgoAddresses == {"a1", "a2"}
NgoProductIds == 1..MaxNgoProducts
NgoPrices == {0, 50}

\* ------------------------------------------------------------------ state
VARIABLES
    admin,            \* DataKey::Admin           (None until initialize)
    config,           \* DataKey::Config          (NoneOpt until initialize)
    productCounter,   \* DataKey::ProductCounter
    purchaseCounter,  \* DataKey::PurchaseCounter
    products,         \* DataKey::Product(id)     id -> ImpactProduct
    purchases,        \* DataKey::Purchase(id)    id -> Purchase
    sellerProducts,   \* DataKey::SellerProducts(address) -> Vec<u32>
    buyerPurchases,   \* DataKey::BuyerPurchases(address) -> Vec<u32>
    events,           \* the events published so far
    nftOwner,         \* the NFT contract: token id -> owner
    balance,          \* the payment token: address -> balance
    ngo               \* the ngo crate's storage: instance keys and persistent maps

vars == <<admin, config, productCounter, purchaseCounter, products, purchases,
          sellerProducts, buyerPurchases, events, nftOwner, balance, ngo>>

\* The contract state and its collaborators' as one value.
State ==
    [admin |-> admin, config |-> config, productCounter |-> productCounter,
     purchaseCounter |-> purchaseCounter, products |-> products, purchases |-> purchases,
     sellerProducts |-> sellerProducts, buyerPurchases |-> buyerPurchases,
     events |-> events, nftOwner |-> nftOwner, balance |-> balance]

\* A call that returned: the state it reached and its return value.
Ok(st, ret) == [ok |-> TRUE, err |-> NoErr, ret |-> ret, st |-> st]
\* A call that panicked with `code` after reaching state `st`.
Panic(st, code) == [ok |-> FALSE, err |-> code, ret |-> None, st |-> st]

\* Rust's integer division truncates toward zero.
TruncDiv(a, b) == IF a >= 0 THEN a \div b ELSE -((-a) \div b)

\* ---------------------------------------------------- external contracts
\* NftInterface::transfer: requires the authorization of `from`, who must own
\* the token; `traps` is the NFT contract aborting the call for its own reasons.
nft_transfer(st, auth, traps, from, to, token_id) ==
    IF traps \/ from \notin auth \/ st.nftOwner[token_id] # from
    THEN Panic(st, "NftTransferFailed")
    ELSE Ok([st EXCEPT !.nftOwner[token_id] = to], None)

\* TokenInterface::transfer: requires the authorization of `from`, a
\* non-negative amount and a sufficient balance.
token_transfer(st, auth, from, to, amount) ==
    IF from \notin auth \/ amount < 0 \/ st.balance[from] < amount
    THEN Panic(st, "TokenTransferFailed")
    ELSE Ok([st EXCEPT !.balance =
                 [a \in DOMAIN st.balance |->
                     st.balance[a] - (IF a = from THEN amount ELSE 0)
                                   + (IF a = to THEN amount ELSE 0)]], None)

\* ------------------------------------------------------- private helpers
is_admin(st, caller) == st.admin = caller

is_paused(st) == Unwrap(st.config).is_paused

\* Mutant: the fee taken as a percentage, not as parts per thousand.
calculate_fee_percent(st, amount) ==
    TruncDiv(amount * Unwrap(st.config).fee_percentage, 100)

calculate_fee(st, amount) ==
    TruncDiv(amount * Unwrap(st.config).fee_percentage, FeeDenominator)

\* Mutant: the pause flag is read and ignored.
ensure_not_paused_ignored(st) ==
    IF st.config = NoneOpt THEN "UnwrapNone" ELSE NoErr

\* Mutant: a missing config counts as not paused.
ensure_not_paused_default_unpaused(st) ==
    IF st.config = NoneOpt THEN NoErr
    ELSE IF is_paused(st) THEN "ContractPaused"
    ELSE NoErr

\* The error ensure_not_paused ends with, NoErr if it returns.
ensure_not_paused(st) ==
    IF st.config = NoneOpt THEN "UnwrapNone"
    ELSE IF is_paused(st) THEN "ContractPaused"
    ELSE NoErr

publish_list_event(st, product_id, seller) ==
    [st EXCEPT !.events = Append(@, [topic |-> "ProductListed",
                                     key |-> <<seller, product_id>>,
                                     data |-> <<seller, product_id>>])]

publish_buy_event(st, purchase_id, buyer) ==
    [st EXCEPT !.events = Append(@, [topic |-> "ProductBought",
                                     key |-> <<buyer, purchase_id>>,
                                     data |-> <<buyer, purchase_id>>])]

\* ---------------------------------------------------------- entry points
\* Mutant: initialize without the check that an admin is already stored.
initialize_unchecked(st, auth, new_admin, fee_percentage) ==
    IF fee_percentage > MaxFeePercentage THEN Panic(st, "Fee percentage too high")
    ELSE IF new_admin \notin auth THEN Panic(st, "Auth")
    ELSE Ok([st EXCEPT !.admin = new_admin,
                       !.config = Some([fee_percentage |-> fee_percentage,
                                       is_paused |-> FALSE]),
                       !.productCounter = 0,
                       !.purchaseCounter = 0], None)

initialize(st, auth, new_admin, fee_percentage) ==
    IF st.admin # None THEN Panic(st, "AlreadyInitialized")
    ELSE IF fee_percentage > MaxFeePercentage THEN Panic(st, "Fee percentage too high")
    ELSE IF new_admin \notin auth THEN Panic(st, "Auth")
    ELSE Ok([st EXCEPT !.admin = new_admin,
                       !.config = Some([fee_percentage |-> fee_percentage,
                                       is_paused |-> FALSE]),
                       !.productCounter = 0,
                       !.purchaseCounter = 0], None)

\* Mutant: the product is stored as listed without the NFT going into escrow.
list_product_no_escrow(st, auth, traps, seller, price, token, nft_contract, nft_token_id, impact_metrics) ==
    LET paused == ensure_not_paused(st) IN
    IF paused # NoErr THEN Panic(st, paused)
    ELSE IF seller \notin auth THEN Panic(st, "Auth")
    ELSE IF st.nftOwner[nft_token_id] # seller THEN Panic(st, "Unauthorized")
    ELSE
    LET new_product_id == st.productCounter + 1
        s1 == [st EXCEPT !.productCounter = new_product_id]
        product == [id |-> new_product_id, price |-> price, seller |-> seller,
                    token |-> token, nft_contract |-> nft_contract,
                    nft_token_id |-> nft_token_id, impact_metrics |-> impact_metrics,
                    is_listed |-> TRUE]
        s2 == [s1 EXCEPT !.products = (new_product_id :> product) @@ @]
        s3 == [s2 EXCEPT !.sellerProducts[seller] = Append(@, new_product_id)]
    IN  Ok(publish_list_event(s3, new_product_id, seller), new_product_id)

\* Mutant: the new id is read from the counter, and the counter is not stored.
list_product_counter_not_stored(st, auth, traps, seller, price, token, nft_contract, nft_token_id, impact_metrics) ==
    LET paused == ensure_not_paused(st) IN
    IF paused # NoErr THEN Panic(st, paused)
    ELSE IF seller \notin auth THEN Panic(st, "Auth")
    ELSE IF st.nftOwner[nft_token_id] # seller THEN Panic(st, "Unauthorized")
    ELSE
    LET new_product_id == st.productCounter + 1
        product == [id |-> new_product_id, price |-> price, seller |-> seller,
                    token |-> token, nft_contract |-> nft_contract,
                    nft_token_id |-> nft_token_id, impact_metrics |-> impact_metrics,
                    is_listed |-> TRUE]
        moved == nft_transfer(st, auth, traps, seller, Market, nft_token_id)
    IN
    IF ~moved.ok THEN Panic(moved.st, moved.err)
    ELSE
    LET s2 == [moved.st EXCEPT !.products = (new_product_id :> product) @@ @]
        s3 == [s2 EXCEPT !.sellerProducts[seller] = Append(@, new_product_id)]
    IN  Ok(publish_list_event(s3, new_product_id, seller), new_product_id)

\* Mutant: listing an NFT that has an unlisted product of the same seller
\* sets that product back to listed.
list_product_relists(st, auth, traps, seller, price, token, nft_contract, nft_token_id, impact_metrics) ==
    LET paused == ensure_not_paused(st) IN
    IF paused # NoErr THEN Panic(st, paused)
    ELSE IF seller \notin auth THEN Panic(st, "Auth")
    ELSE IF st.nftOwner[nft_token_id] # seller THEN Panic(st, "Unauthorized")
    ELSE
    LET old == {id \in DOMAIN st.products :
                   /\ st.products[id].nft_token_id = nft_token_id
                   /\ st.products[id].seller = seller
                   /\ ~st.products[id].is_listed}
        new_product_id == IF old # {} THEN CHOOSE id \in old : TRUE
                          ELSE st.productCounter + 1
        s1 == IF old # {} THEN st ELSE [st EXCEPT !.productCounter = new_product_id]
        product == [id |-> new_product_id, price |-> price, seller |-> seller,
                    token |-> token, nft_contract |-> nft_contract,
                    nft_token_id |-> nft_token_id, impact_metrics |-> impact_metrics,
                    is_listed |-> TRUE]
        moved == nft_transfer(s1, auth, traps, seller, Market, nft_token_id)
    IN
    IF ~moved.ok THEN Panic(moved.st, moved.err)
    ELSE
    LET s2 == [moved.st EXCEPT !.products = (new_product_id :> product) @@ @]
        s3 == IF old # {} THEN s2
              ELSE [s2 EXCEPT !.sellerProducts[seller] = Append(@, new_product_id)]
    IN  Ok(publish_list_event(s3, new_product_id, seller), new_product_id)

\* Mutant: the product is stored with an empty impact-metric map.
list_product_drops_metrics(st, auth, traps, seller, price, token, nft_contract, nft_token_id, impact_metrics) ==
    LET paused == ensure_not_paused(st) IN
    IF paused # NoErr THEN Panic(st, paused)
    ELSE IF seller \notin auth THEN Panic(st, "Auth")
    ELSE IF st.nftOwner[nft_token_id] # seller THEN Panic(st, "Unauthorized")
    ELSE
    LET new_product_id == st.productCounter + 1
        s1 == [st EXCEPT !.productCounter = new_product_id]
        product == [id |-> new_product_id, price |-> price, seller |-> seller,
                    token |-> token, nft_contract |-> nft_contract,
                    nft_token_id |-> nft_token_id, impact_metrics |-> "{}",
                    is_listed |-> TRUE]
        moved == nft_transfer(s1, auth, traps, seller, Market, nft_token_id)
    IN
    IF ~moved.ok THEN Panic(moved.st, moved.err)
    ELSE
    LET s2 == [moved.st EXCEPT !.products = (new_product_id :> product) @@ @]
        s3 == [s2 EXCEPT !.sellerProducts[seller] = Append(@, new_product_id)]
    IN  Ok(publish_list_event(s3, new_product_id, seller), new_product_id)

\* Mutant: list_product without the check that the seller owns the NFT.
list_product_owner_unchecked(st, auth, traps, seller, price, token, nft_contract, nft_token_id, impact_metrics) ==
    LET paused == ensure_not_paused(st) IN
    IF paused # NoErr THEN Panic(st, paused)
    ELSE IF seller \notin auth THEN Panic(st, "Auth")
    ELSE
    LET new_product_id == st.productCounter + 1
        s1 == [st EXCEPT !.productCounter = new_product_id]
        product == [id |-> new_product_id, price |-> price, seller |-> seller,
                    token |-> token, nft_contract |-> nft_contract,
                    nft_token_id |-> nft_token_id, impact_metrics |-> impact_metrics,
                    is_listed |-> TRUE]
        moved == nft_transfer(s1, auth, traps, seller, Market, nft_token_id)
    IN
    IF ~moved.ok THEN Panic(moved.st, moved.err)
    ELSE
    LET s2 == [moved.st EXCEPT !.products = (new_product_id :> product) @@ @]
        s3 == [s2 EXCEPT !.sellerProducts[seller] = Append(@, new_product_id)]
    IN  Ok(publish_list_event(s3, new_product_id, seller), new_product_id)

\* Mutant: the new product id is not added to the seller's index.
list_product_index_skipped(st, auth, traps, seller, price, token, nft_contract, nft_token_id, impact_metrics) ==
    LET paused == ensure_not_paused(st) IN
    IF paused # NoErr THEN Panic(st, paused)
    ELSE IF seller \notin auth THEN Panic(st, "Auth")
    ELSE IF st.nftOwner[nft_token_id] # seller THEN Panic(st, "Unauthorized")
    ELSE
    LET new_product_id == st.productCounter + 1
        s1 == [st EXCEPT !.productCounter = new_product_id]
        product == [id |-> new_product_id, price |-> price, seller |-> seller,
                    token |-> token, nft_contract |-> nft_contract,
                    nft_token_id |-> nft_token_id, impact_metrics |-> impact_metrics,
                    is_listed |-> TRUE]
        moved == nft_transfer(s1, auth, traps, seller, Market, nft_token_id)
    IN
    IF ~moved.ok THEN Panic(moved.st, moved.err)
    ELSE
    LET s2 == [moved.st EXCEPT !.products = (new_product_id :> product) @@ @]
    IN  Ok(publish_list_event(s2, new_product_id, seller), new_product_id)

list_product(st, auth, traps, seller, price, token, nft_contract, nft_token_id, impact_metrics) ==
    LET paused == ensure_not_paused(st) IN
    IF paused # NoErr THEN Panic(st, paused)
    ELSE IF seller \notin auth THEN Panic(st, "Auth")
    ELSE IF st.nftOwner[nft_token_id] # seller THEN Panic(st, "Unauthorized")
    ELSE
    LET new_product_id == st.productCounter + 1
        s1 == [st EXCEPT !.productCounter = new_product_id]
        product == [id |-> new_product_id, price |-> price, seller |-> seller,
                    token |-> token, nft_contract |-> nft_contract,
                    nft_token_id |-> nft_token_id, impact_metrics |-> impact_metrics,
                    is_listed |-> TRUE]
        moved == nft_transfer(s1, auth, traps, seller, Market, nft_token_id)
    IN
    IF ~moved.ok THEN Panic(moved.st, moved.err)
    ELSE
    LET s2 == [moved.st EXCEPT !.products = (new_product_id :> product) @@ @]
        s3 == [s2 EXCEPT !.sellerProducts[seller] = Append(@, new_product_id)]
    IN  Ok(publish_list_event(s3, new_product_id, seller), new_product_id)

\* Mutant: the NFT is returned to the caller, not to the product's seller.
unlist_product_to_caller(st, auth, traps, seller, product_id) ==
    LET paused == ensure_not_paused(st) IN
    IF paused # NoErr THEN Panic(st, paused)
    ELSE IF seller \notin auth THEN Panic(st, "Auth")
    ELSE IF product_id \notin DOMAIN st.products THEN Panic(st, "ProductNotFound")
    ELSE
    LET product == st.products[product_id] IN
    IF product.seller # seller /\ ~is_admin(st, seller) THEN Panic(st, "Unauthorized")
    ELSE IF ~product.is_listed THEN Ok(st, FALSE)
    ELSE
    LET s1 == [st EXCEPT !.products[product_id].is_listed = FALSE]
        moved == nft_transfer(s1, {Market}, traps, Market, seller, product.nft_token_id)
    IN  IF ~moved.ok THEN Panic(moved.st, moved.err) ELSE Ok(moved.st, TRUE)

\* Mutant: unlist_product without the early return for a product that is
\* not listed.
unlist_product_no_early_return(st, auth, traps, seller, product_id) ==
    LET paused == ensure_not_paused(st) IN
    IF paused # NoErr THEN Panic(st, paused)
    ELSE IF seller \notin auth THEN Panic(st, "Auth")
    ELSE IF product_id \notin DOMAIN st.products THEN Panic(st, "ProductNotFound")
    ELSE
    LET product == st.products[product_id] IN
    IF product.seller # seller /\ ~is_admin(st, seller) THEN Panic(st, "Unauthorized")
    ELSE
    LET s1 == [st EXCEPT !.products[product_id].is_listed = FALSE]
        moved == nft_transfer(s1, {Market}, traps, Market, product.seller, product.nft_token_id)
    IN  IF ~moved.ok THEN Panic(moved.st, moved.err) ELSE Ok(moved.st, TRUE)

unlist_product(st, auth, traps, seller, product_id) ==
    LET paused == ensure_not_paused(st) IN
    IF paused # NoErr THEN Panic(st, paused)
    ELSE IF seller \notin auth THEN Panic(st, "Auth")
    ELSE IF product_id \notin DOMAIN st.products THEN Panic(st, "ProductNotFound")
    ELSE
    LET product == st.products[product_id] IN
    IF product.seller # seller /\ ~is_admin(st, seller) THEN Panic(st, "Unauthorized")
    ELSE IF ~product.is_listed THEN Ok(st, FALSE)
    ELSE
    LET s1 == [st EXCEPT !.products[product_id].is_listed = FALSE]
        moved == nft_transfer(s1, {Market}, traps, Market, product.seller, product.nft_token_id)
    IN  IF ~moved.ok THEN Panic(moved.st, moved.err) ELSE Ok(moved.st, TRUE)

\* Mutant: the NFT contract's failure is swallowed and the purchase goes on.
settle_purchase_nft_unchecked(st, auth, traps, buyer, product, total_price, fee) ==
    LET seller_amount == total_price - fee IN
    IF st.balance[buyer] < total_price THEN Panic(st, "InsufficientFunds")
    ELSE
    LET paid_seller == token_transfer(st, auth, buyer, product.seller, seller_amount) IN
    IF ~paid_seller.ok THEN Panic(paid_seller.st, paid_seller.err)
    ELSE
    LET paid_fee == token_transfer(paid_seller.st, auth, buyer, st.admin, fee) IN
    IF ~paid_fee.ok THEN Panic(paid_fee.st, paid_fee.err)
    ELSE
    LET moved == nft_transfer(paid_fee.st, {Market}, traps, Market, buyer,
                              product.nft_token_id)
    IN  Ok(moved.st, None)

\* Mutant: buy_product without the balance check before the transfers.
settle_purchase_balance_unchecked(st, auth, traps, buyer, product, total_price, fee) ==
    LET seller_amount == total_price - fee IN
    LET paid_seller == token_transfer(st, auth, buyer, product.seller, seller_amount) IN
    IF ~paid_seller.ok THEN Panic(paid_seller.st, paid_seller.err)
    ELSE
    LET paid_fee == token_transfer(paid_seller.st, auth, buyer, st.admin, fee) IN
    IF ~paid_fee.ok THEN Panic(paid_fee.st, paid_fee.err)
    ELSE
    LET moved == nft_transfer(paid_fee.st, {Market}, traps, Market, buyer,
                              product.nft_token_id)
    IN  IF ~moved.ok THEN Panic(moved.st, moved.err) ELSE Ok(moved.st, None)

\* buy_product, the payment and the hand-over: the seller's share and the
\* platform fee leave the buyer, then the escrowed NFT goes to the buyer.
settle_purchase(st, auth, traps, buyer, product, total_price, fee) ==
    LET seller_amount == total_price - fee IN
    IF st.balance[buyer] < total_price THEN Panic(st, "InsufficientFunds")
    ELSE
    LET paid_seller == token_transfer(st, auth, buyer, product.seller, seller_amount) IN
    IF ~paid_seller.ok THEN Panic(paid_seller.st, paid_seller.err)
    ELSE
    LET paid_fee == token_transfer(paid_seller.st, auth, buyer, st.admin, fee) IN
    IF ~paid_fee.ok THEN Panic(paid_fee.st, paid_fee.err)
    ELSE
    LET moved == nft_transfer(paid_fee.st, {Market}, traps, Market, buyer,
                              product.nft_token_id)
    IN  IF ~moved.ok THEN Panic(moved.st, moved.err) ELSE Ok(moved.st, None)

\* Mutant: the purchase is stored but the product stays listed.
record_purchase_still_listed(st, buyer, product_id, product, total_price, fee) ==
    LET new_purchase_id == st.purchaseCounter + 1
        s2 == [st EXCEPT !.purchaseCounter = new_purchase_id]
        purchase == [id |-> new_purchase_id, product_id |-> product_id, buyer |-> buyer,
                     total_price |-> total_price, platform_fee |-> fee,
                     nft_contract |-> product.nft_contract,
                     nft_token_id |-> product.nft_token_id,
                     timestamp |-> LedgerTimestamp]
        s3 == [s2 EXCEPT !.purchases = (new_purchase_id :> purchase) @@ @]
        s4 == [s3 EXCEPT !.buyerPurchases[buyer] = Append(@, new_purchase_id)]
    IN  Ok(publish_buy_event(s4, new_purchase_id, buyer), new_purchase_id)

\* Mutant: the new purchase id is read from the counter, and the counter is
\* not stored.
record_purchase_counter_not_stored(st, buyer, product_id, product, total_price, fee) ==
    LET s1 == [st EXCEPT !.products[product_id].is_listed = FALSE]
        new_purchase_id == s1.purchaseCounter + 1
        purchase == [id |-> new_purchase_id, product_id |-> product_id, buyer |-> buyer,
                     total_price |-> total_price, platform_fee |-> fee,
                     nft_contract |-> product.nft_contract,
                     nft_token_id |-> product.nft_token_id,
                     timestamp |-> LedgerTimestamp]
        s3 == [s1 EXCEPT !.purchases = (new_purchase_id :> purchase) @@ @]
        s4 == [s3 EXCEPT !.buyerPurchases[buyer] = Append(@, new_purchase_id)]
    IN  Ok(publish_buy_event(s4, new_purchase_id, buyer), new_purchase_id)

\* Mutant: the purchase is recorded and no event is published.
record_purchase_no_event(st, buyer, product_id, product, total_price, fee) ==
    LET s1 == [st EXCEPT !.products[product_id].is_listed = FALSE]
        new_purchase_id == s1.purchaseCounter + 1
        s2 == [s1 EXCEPT !.purchaseCounter = new_purchase_id]
        purchase == [id |-> new_purchase_id, product_id |-> product_id, buyer |-> buyer,
                     total_price |-> total_price, platform_fee |-> fee,
                     nft_contract |-> product.nft_contract,
                     nft_token_id |-> product.nft_token_id,
                     timestamp |-> LedgerTimestamp]
        s3 == [s2 EXCEPT !.purchases = (new_purchase_id :> purchase) @@ @]
        s4 == [s3 EXCEPT !.buyerPurchases[buyer] = Append(@, new_purchase_id)]
    IN  Ok(s4, new_purchase_id)

\* buy_product, the bookkeeping: the product is unlisted, the purchase gets
\* the next id, is stored and indexed under its buyer, and the event goes out.
record_purchase(st, buyer, product_id, product, total_price, fee) ==
    LET s1 == [st EXCEPT !.products[product_id].is_listed = FALSE]
        new_purchase_id == s1.purchaseCounter + 1
        s2 == [s1 EXCEPT !.purchaseCounter = new_purchase_id]
        purchase == [id |-> new_purchase_id, product_id |-> product_id, buyer |-> buyer,
                     total_price |-> total_price, platform_fee |-> fee,
                     nft_contract |-> product.nft_contract,
                     nft_token_id |-> product.nft_token_id,
                     timestamp |-> LedgerTimestamp]
        s3 == [s2 EXCEPT !.purchases = (new_purchase_id :> purchase) @@ @]
        s4 == [s3 EXCEPT !.buyerPurchases[buyer] = Append(@, new_purchase_id)]
    IN  Ok(publish_buy_event(s4, new_purchase_id, buyer), new_purchase_id)

\* Mutant: buy_product without the check that the buyer is not the seller.
buy_product_own_allowed(st, auth, traps, buyer, product_id) ==
    LET paused == ensure_not_paused(st) IN
    IF paused # NoErr THEN Panic(st, paused)
    ELSE IF buyer \notin auth THEN Panic(st, "Auth")
    ELSE IF product_id \notin DOMAIN st.products THEN Panic(st, "ProductNotFound")
    ELSE
    LET product == st.products[product_id] IN
    IF ~product.is_listed THEN Panic(st, "ProductNotListed")
    ELSE
    LET total_price == product.price
        fee == calculate_fee(st, total_price)
        settled == settle_purchase(st, auth, traps, buyer, product, total_price, fee)
    IN  IF ~settled.ok THEN settled
        ELSE record_purchase(settled.st, buyer, product_id, product, total_price, fee)

\* Mutant: buy_product compares buyer and seller before it looks at is_listed.
buy_product_own_checked_first(st, auth, traps, buyer, product_id) ==
    LET paused == ensure_not_paused(st) IN
    IF paused # NoErr THEN Panic(st, paused)
    ELSE IF buyer \notin auth THEN Panic(st, "Auth")
    ELSE IF product_id \notin DOMAIN st.products THEN Panic(st, "ProductNotFound")
    ELSE
    LET product == st.products[product_id] IN
    IF product.seller = buyer THEN Panic(st, "CannotBuyOwnNFT")
    ELSE IF ~product.is_listed THEN Panic(st, "ProductNotListed")
    ELSE
    LET total_price == product.price
        fee == calculate_fee(st, total_price)
        settled == settle_purchase(st, auth, traps, buyer, product, total_price, fee)
    IN  IF ~settled.ok THEN settled
        ELSE record_purchase(settled.st, buyer, product_id, product, total_price, fee)

buy_product(st, auth, traps, buyer, product_id) ==
    LET paused == ensure_not_paused(st) IN
    IF paused # NoErr THEN Panic(st, paused)
    ELSE IF buyer \notin auth THEN Panic(st, "Auth")
    ELSE IF product_id \notin DOMAIN st.products THEN Panic(st, "ProductNotFound")
    ELSE
    LET product == st.products[product_id] IN
    IF ~product.is_listed THEN Panic(st, "ProductNotListed")
    ELSE IF product.seller = buyer THEN Panic(st, "CannotBuyOwnNFT")
    ELSE
    LET total_price == product.price
        fee == calculate_fee(st, total_price)
        settled == settle_purchase(st, auth, traps, buyer, product, total_price, fee)
    IN  IF ~settled.ok THEN settled
        ELSE record_purchase(settled.st, buyer, product_id, product, total_price, fee)

\* Mutant: the batch is bought from its last element to its first.
RECURSIVE batch_loop_reversed(_, _, _, _, _, _)
batch_loop_reversed(st, auth, traps, buyer, product_ids, purchase_ids) ==
    IF product_ids = <<>> THEN Ok(st, purchase_ids)
    ELSE LET bought == buy_product(st, auth, traps, buyer, product_ids[Len(product_ids)])
         IN  IF ~bought.ok THEN bought
             ELSE batch_loop_reversed(bought.st, auth, traps, buyer,
                                      SubSeq(product_ids, 1, Len(product_ids) - 1),
                                      Append(purchase_ids, bought.ret))

\* Mutant: a best-effort batch, which stops at the first purchase that fails
\* and returns the purchases made so far.
RECURSIVE batch_loop_best_effort(_, _, _, _, _, _)
batch_loop_best_effort(st, auth, traps, buyer, product_ids, purchase_ids) ==
    IF product_ids = <<>> THEN Ok(st, purchase_ids)
    ELSE LET bought == buy_product(st, auth, traps, buyer, Head(product_ids))
         IN  IF ~bought.ok THEN Ok(st, purchase_ids)
             ELSE batch_loop_best_effort(bought.st, auth, traps, buyer, Tail(product_ids),
                                         Append(purchase_ids, bought.ret))

\* The loop of batch_buy_products: buy_product for each id in order, the
\* first panic ending the invocation.
RECURSIVE batch_loop(_, _, _, _, _, _)
batch_loop(st, auth, traps, buyer, product_ids, purchase_ids) ==
    IF product_ids = <<>> THEN Ok(st, purchase_ids)
    ELSE LET bought == buy_product(st, auth, traps, buyer, Head(product_ids))
         IN  IF ~bought.ok THEN bought
             ELSE batch_loop(bought.st, auth, traps, buyer, Tail(product_ids),
                             Append(purchase_ids, bought.ret))

batch_buy_products(st, auth, traps, buyer, product_ids) ==
    LET paused == ensure_not_paused(st) IN
    IF paused # NoErr THEN Panic(st, paused)
    ELSE IF buyer \notin auth THEN Panic(st, "Auth")
    ELSE batch_loop(st, auth, traps, buyer, product_ids, <<>>)

\* Mutant: update_product lets the admin in, as unlist_product does.
update_product_admin_allowed(st, auth, seller, product_id, price, impact_metrics) ==
    LET paused == ensure_not_paused(st) IN
    IF paused # NoErr THEN Panic(st, paused)
    ELSE IF seller \notin auth THEN Panic(st, "Auth")
    ELSE IF product_id \notin DOMAIN st.products THEN Panic(st, "ProductNotFound")
    ELSE
    LET product == st.products[product_id] IN
    IF product.seller # seller /\ ~is_admin(st, seller) THEN Panic(st, "Unauthorized")
    ELSE IF ~product.is_listed THEN Panic(st, "ProductNotListed")
    ELSE
    LET p1 == IF price # NoneOpt THEN [product EXCEPT !.price = Unwrap(price)] ELSE product
        p2 == IF impact_metrics # NoneOpt
              THEN [p1 EXCEPT !.impact_metrics = Unwrap(impact_metrics)]
              ELSE p1
    IN  Ok([st EXCEPT !.products[product_id] = p2], TRUE)

\* Mutant: update_product refuses a price that is not positive.
update_product_price_validated(st, auth, seller, product_id, price, impact_metrics) ==
    LET paused == ensure_not_paused(st) IN
    IF paused # NoErr THEN Panic(st, paused)
    ELSE IF seller \notin auth THEN Panic(st, "Auth")
    ELSE IF product_id \notin DOMAIN st.products THEN Panic(st, "ProductNotFound")
    ELSE
    LET product == st.products[product_id] IN
    IF product.seller # seller THEN Panic(st, "Unauthorized")
    ELSE IF ~product.is_listed THEN Panic(st, "ProductNotListed")
    ELSE IF price # NoneOpt /\ Unwrap(price) <= 0 THEN Panic(st, "InvalidPrice")
    ELSE
    LET p1 == IF price # NoneOpt THEN [product EXCEPT !.price = Unwrap(price)] ELSE product
        p2 == IF impact_metrics # NoneOpt
              THEN [p1 EXCEPT !.impact_metrics = Unwrap(impact_metrics)]
              ELSE p1
    IN  Ok([st EXCEPT !.products[product_id] = p2], TRUE)

update_product(st, auth, seller, product_id, price, impact_metrics) ==
    LET paused == ensure_not_paused(st) IN
    IF paused # NoErr THEN Panic(st, paused)
    ELSE IF seller \notin auth THEN Panic(st, "Auth")
    ELSE IF product_id \notin DOMAIN st.products THEN Panic(st, "ProductNotFound")
    ELSE
    LET product == st.products[product_id] IN
    IF product.seller # seller THEN Panic(st, "Unauthorized")
    ELSE IF ~product.is_listed THEN Panic(st, "ProductNotListed")
    ELSE
    LET p1 == IF price # NoneOpt THEN [product EXCEPT !.price = Unwrap(price)] ELSE product
        p2 == IF impact_metrics # NoneOpt
              THEN [p1 EXCEPT !.impact_metrics = Unwrap(impact_metrics)]
              ELSE p1
    IN  Ok([st EXCEPT !.products[product_id] = p2], TRUE)

\* Mutant: pause_contract without the admin check.
pause_contract_any_caller(st, auth, caller) ==
    IF caller \notin auth THEN Panic(st, "Auth")
    ELSE IF st.admin = None THEN Panic(st, "UnwrapNone")
    ELSE IF Unwrap(st.config).is_paused THEN Ok(st, FALSE)
    ELSE Ok([st EXCEPT !.config[1].is_paused = TRUE], TRUE)

pause_contract(st, auth, caller) ==
    IF caller \notin auth THEN Panic(st, "Auth")
    ELSE IF st.admin = None THEN Panic(st, "UnwrapNone")
    ELSE IF ~is_admin(st, caller) THEN Panic(st, "Unauthorized")
    ELSE IF Unwrap(st.config).is_paused THEN Ok(st, FALSE)
    ELSE Ok([st EXCEPT !.config[1].is_paused = TRUE], TRUE)

\* Mutant: unpause_contract returns true also when the contract is not paused.
unpause_contract_always_true(st, auth, caller) ==
    IF caller \notin auth THEN Panic(st, "Auth")
    ELSE IF st.admin = None THEN Panic(st, "UnwrapNone")
    ELSE IF ~is_admin(st, caller) THEN Panic(st, "Unauthorized")
    ELSE Ok([st EXCEPT !.config[1].is_paused = FALSE], TRUE)

unpause_contract(st, auth, caller) ==
    IF caller \notin auth THEN Panic(st, "Auth")
    ELSE IF st.admin = None THEN Panic(st, "UnwrapNone")
    ELSE IF ~is_admin(st, caller) THEN Panic(st, "Unauthorized")
    ELSE IF ~Unwrap(st.config).is_paused THEN Ok(st, FALSE)
    ELSE Ok([st EXCEPT !.config[1].is_paused = FALSE], TRUE)

\* Mutant: update_fee_percentage without the upper bound on the fee.
update_fee_percentage_unbounded(st, auth, caller, new_fee_percentage) ==
    IF caller \notin auth THEN Panic(st, "Auth")
    ELSE IF st.admin = None THEN Panic(st, "UnwrapNone")
    ELSE IF ~is_admin(st, caller) THEN Panic(st, "Unauthorized")
    ELSE Ok([st EXCEPT !.config[1].fee_percentage = new_fee_percentage], TRUE)

\* Mutant: update_fee_percentage returns false when the fee stays the same,
\* as the pause toggles do.
update_fee_percentage_reports_change(st, auth, caller, new_fee_percentage) ==
    IF caller \notin auth THEN Panic(st, "Auth")
    ELSE IF st.admin = None THEN Panic(st, "UnwrapNone")
    ELSE IF ~is_admin(st, caller) THEN Panic(st, "Unauthorized")
    ELSE IF new_fee_percentage > MaxFeePercentage THEN Panic(st, "Fee percentage too high")
    ELSE IF Unwrap(st.config).fee_percentage = new_fee_percentage THEN Ok(st, FALSE)
    ELSE Ok([st EXCEPT !.config[1].fee_percentage = new_fee_percentage], TRUE)

update_fee_percentage(st, auth, caller, new_fee_percentage) ==
    IF caller \notin auth THEN Panic(st, "Auth")
    ELSE IF st.admin = None THEN Panic(st, "UnwrapNone")
    ELSE IF ~is_admin(st, caller) THEN Panic(st, "Unauthorized")
    ELSE IF new_fee_percentage > MaxFeePercentage THEN Panic(st, "Fee percentage too high")
    ELSE Ok([st EXCEPT !.config[1].fee_percentage = new_fee_percentage], TRUE)

\* ------------------------------------------------------------------- host
\* The host runs an entry point as one atomic invocation: the state of a call
\* that returned is committed, that of a call that panicked is discarded.
get_product(st, product_id) ==
    IF product_id \in DOMAIN st.products THEN Some(st.products[product_id]) ELSE NoneOpt

get_admin(st) ==
    IF st.admin = None THEN Panic(st, "UnwrapNone") ELSE Ok(st, st.admin)

\* ----------------------------------------------------------------- queries
\* The loop of the product queries: the stored products of `ids`, in the order
\* of `ids`; an id with no stored product is skipped, and so is, for
\* get_active_products, a product that is not listed.
RECURSIVE product_loop(_, _, _, _)
product_loop(st, ids, listed_only, found) ==
    IF ids = <<>> THEN found
    ELSE LET product == get_product(st, Head(ids))
             kept == product # NoneOpt /\ (listed_only => Unwrap(product).is_listed)
         IN  product_loop(st, Tail(ids), listed_only,
                          IF kept THEN Append(found, Unwrap(product)) ELSE found)

\* Mutant: get_active_products without the is_listed filter.
get_active_products_unfiltered(st) ==
    Ok(st, product_loop(st, [i \in 1..st.productCounter |-> i], FALSE, <<>>))

get_active_products(st) ==
    Ok(st, product_loop(st, [i \in 1..st.productCounter |-> i], TRUE, <<>>))

get_all_products(st) ==
    Ok(st, product_loop(st, [i \in 1..st.productCounter |-> i], FALSE, <<>>))

get_seller_products(st, seller) ==
    Ok(st, product_loop(st, st.sellerProducts[seller], FALSE, <<>>))

get_purchase(st, purchase_id) ==
    IF purchase_id \in DOMAIN st.purchases THEN Some(st.purchases[purchase_id]) ELSE NoneOpt

RECURSIVE purchase_loop(_, _, _)
purchase_loop(st, ids, found) ==
    IF ids = <<>> THEN found
    ELSE LET purchase == get_purchase(st, Head(ids))
         IN  purchase_loop(st, Tail(ids),
                           IF purchase # NoneOpt THEN Append(found, Unwrap(purchase))
                           ELSE found)

get_buyer_purchases(st, buyer) ==
    Ok(st, purchase_loop(st, st.buyerPurchases[buyer], <<>>))

get_config(st) ==
    IF st.config = NoneOpt THEN Panic(st, "UnwrapNone") ELSE Ok(st, Unwrap(st.config))

\* ================================================================ ngo crate
\* The crate's functions read and write one storage: the instance keys ADMIN
\* and COUNTER and the persistent map, whose keys are product ids (u32) and
\* owner addresses; the two kinds of key never coincide and are kept as the
\* maps `persistent` and `profiles`.  Every module stores its record under the
\* bare product id, so a key holds whichever record was written last; each
\* value carries the name of its struct, and reading a key into another struct
\* traps.
persistent_set(n, key, val) == [n EXCEPT !.persistent[key] = Some(val)]
persistent_remove(n, key) == [n EXCEPT !.persistent[key] = NoneOpt]
persistent_has(n, key) == n.persistent[key] # NoneOpt
\* The struct stored under key (the key is present).
persistent_val(n, key) == Unwrap(n.persistent[key])
\* storage().persistent().get::<_, T>(key) followed by unwrap / expect(msg):
\* the record, or the panic of a missing key or of a value that is no T.
persistent_get(n, key, type, msg) ==
    IF ~persistent_has(n, key) THEN Panic(n, msg)
    ELSE IF persistent_val(n, key).type # type THEN Panic(n, "ConversionError")
    ELSE Ok(n, persistent_val(n, key))

ngo_initialize(n, a) ==
    IF n.admin # None THEN Panic(n, "Already initialized")
    ELSE Ok([n EXCEPT !.admin = a, !.counter = Some(0)], None)

create_impact_product(n, creator, metadata_uri, impact_value, price) ==
    LET product_id == (IF n.counter = NoneOpt THEN 0 ELSE Unwrap(n.counter)) + 1
        product == [type |-> "ImpactProduct", creator |-> creator,
                    metadata_uri |-> metadata_uri, impact_value |-> impact_value,
                    price |-> price, listed |-> FALSE, sold |-> FALSE]
    IN  Ok(persistent_set([n EXCEPT !.counter = Some(product_id)], product_id, product),
           product_id)

list_for_sale(n, seller, product_id, price) ==
    LET got == persistent_get(n, product_id, "ImpactProduct", "product_id not exist")
    IN  IF ~got.ok THEN got
        ELSE IF got.ret.creator # seller THEN Panic(n, "You are not owner")
        ELSE LET listing == [type |-> "MarketplaceListing", product_id |-> product_id,
                             seller |-> seller, price |-> price, status |-> "Unsold"]
             IN  Ok(persistent_set(n, product_id, listing), None)

\* Mutant: purchase_nft does not look at the listing's status.
purchase_nft_status_unchecked(n, buyer, product_id) ==
    LET got == persistent_get(n, product_id, "MarketplaceListing", "product_id not exist")
    IN  IF ~got.ok THEN got
        ELSE Ok(persistent_set(n, product_id, [got.ret EXCEPT !.status = "Sold"]), None)

\* The fee and the seller's amount are computed and dropped (the transfers are
\* placeholders); the buyer is not looked at.
purchase_nft(n, buyer, product_id) ==
    LET got == persistent_get(n, product_id, "MarketplaceListing", "product_id not exist")
    IN  IF ~got.ok THEN got
        ELSE IF got.ret.status # "Unsold" THEN Panic(n, "NFT is not available for sale")
        ELSE Ok(persistent_set(n, product_id, [got.ret EXCEPT !.status = "Sold"]), None)

delist_product(n, seller, product_id) ==
    LET got == persistent_get(n, product_id, "MarketplaceListing", "UnwrapNone")
    IN  IF ~got.ok THEN got
        ELSE IF got.ret.seller # seller
             THEN Panic(n, "Unauthorized: Only the seller can delist")
        ELSE Ok(persistent_remove(n, product_id), None)

get_product_details(n, product_id) ==
    IF ~persistent_has(n, product_id) THEN Ok(n, NoneOpt)
    ELSE LET got == persistent_get(n, product_id, "MarketplaceListing", "UnwrapNone")
         IN  IF ~got.ok THEN got ELSE Ok(n, Some(got.ret))

register_royalty(n, product_id, creator, marketplace_wallet) ==
    LET royalty_info == [type |-> "RoyaltyInfo", creator |-> creator,
                         marketplace_wallet |-> marketplace_wallet,
                         product_id |-> product_id,
                         royalty_percentage |-> CREATOR_ROYALTY + MARKETPLACE_ROYALTY]
    IN  Ok(persistent_set(n, product_id, royalty_info), None)

submit_for_verification(n, product_id) ==
    LET verification == [type |-> "VerificationQueue", product_id |-> product_id,
                         status |-> "Pending", verifier |-> NoneOpt]
    IN  Ok(persistent_set(n, product_id, verification), None)

approve_product(n, product_id, verifier) ==
    LET got == persistent_get(n, product_id, "VerificationQueue", "UnwrapNone")
    IN  IF ~got.ok THEN got
        ELSE Ok(persistent_set(n, product_id,
                    [got.ret EXCEPT !.status = "Approved", !.verifier = Some(verifier)]),
                None)

reject_product(n, product_id, verifier) ==
    LET got == persistent_get(n, product_id, "VerificationQueue", "UnwrapNone")
    IN  IF ~got.ok THEN got
        ELSE Ok(persistent_set(n, product_id,
                    [got.ret EXCEPT !.status = "Rejected", !.verifier = Some(verifier)]),
                None)

_register_ngo(n, owner, name, description) ==
    LET profile == [type |-> "NGOProfile", owner |-> owner, name |-> name,
                    description |-> description, total_impact_products |-> 0,
                    total_sold |-> 0, total_earnings |-> 0, verified |-> FALSE]
    IN  Ok([n EXCEPT !.profiles[owner] = Some(profile)], None)

\* ==================================================================== host
Committed(st, r) == IF r.ok THEN r.st ELSE st

HostInvoke(r) ==
    LET s == Committed(State, r)
    IN     /\ admin' = s.admin
           /\ config' = s.config
           /\ productCounter' = s.productCounter
           /\ purchaseCounter' = s.purchaseCounter
           /\ products' = s.products
           /\ purchases' = s.purchases
           /\ sellerProducts' = s.sellerProducts
           /\ buyerPurchases' = s.buyerPurchases
           /\ events' = s.events
           /\ nftOwner' = s.nftOwner
           /\ balance' = s.balance
           /\ ngo' = ngo

\* Who signed an invocation made in the name of `caller`: require_auth(a)
\* passes for a signer.
Signed(caller) == {caller}

Init ==
    /\ admin = None
    /\ config = NoneOpt
    /\ productCounter = 0
    /\ purchaseCounter = 0
    /\ products = <<>>
    /\ purchases = <<>>
    /\ sellerProducts = [a \in Addresses |-> <<>>]
    /\ buyerPurchases = [a \in Addresses |-> <<>>]
    /\ events = <<>>
    /\ nftOwner = [t \in TokenIds |-> IF t = "NFT001" THEN "a1" ELSE "a2"]
    /\ balance = InitialBalance
    /\ ngo = [admin |-> None, counter |-> NoneOpt,
              persistent |-> [k \in NgoProductIds |-> NoneOpt],
              profiles |-> [a \in NgoAddresses |-> NoneOpt]]

Initialize ==
    \E a \in AdminInputs, f \in FeeInputs :
        HostInvoke(initialize(State, Signed(a), a, f))

ListProduct ==
    /\ productCounter < MaxProducts
    /\ \E seller \in Addresses, price \in Prices, t \in TokenIds, m \in ListedMetrics,
          traps \in BOOLEAN :
        HostInvoke(list_product(State, Signed(seller), traps, seller, price, PaymentToken,
                                NftContract, t, m))

UnlistProduct ==
    \E seller \in Addresses, id \in ProductIds, traps \in BOOLEAN :
        HostInvoke(unlist_product(State, Signed(seller), traps, seller, id))

BuyProduct ==
    \E buyer \in Addresses, id \in ProductIds, traps \in BOOLEAN :
        HostInvoke(buy_product(State, Signed(buyer), traps, buyer, id))

BatchBuyProducts ==
    \E buyer \in Addresses, ids \in BatchInputs, traps \in BOOLEAN :
        HostInvoke(batch_buy_products(State, Signed(buyer), traps, buyer, ids))

UpdateProduct ==
    \E seller \in Addresses, id \in ProductIds,
       price \in {Some(p) : p \in Prices} \cup {NoneOpt},
       m \in {Some(x) : x \in ListedMetrics} \cup {NoneOpt} :
        HostInvoke(update_product(State, Signed(seller), seller, id, price, m))

PauseContract ==
    \E a \in Addresses :
        HostInvoke(pause_contract(State, Signed(a), a))

UnpauseContract ==
    \E a \in Addresses :
        HostInvoke(unpause_contract(State, Signed(a), a))

UpdateFeePercentage ==
    \E a \in Addresses, f \in FeeInputs :
        HostInvoke(update_fee_percentage(State, Signed(a), a, f))

Next ==
    \/ Initialize
    \/ ListProduct
    \/ UnlistProduct
    \/ BuyProduct
    \/ BatchBuyProducts
    \/ UpdateProduct
    \/ PauseContract
    \/ UnpauseContract
    \/ UpdateFeePercentage

Spec == Init /\ [][Next]_vars

\* ------------------------------------------------------- ngo specification
\* An invocation of the ngo crate: its storage is committed if the call
\* returned; the impact-buyer contract is another contract and is not touched.
NgoInvoke(r) ==
    /\ ngo' = Committed(ngo, r)
    /\ UNCHANGED <<admin, config, productCounter, purchaseCounter, products, purchases,
                   sellerProducts, buyerPurchases, events, nftOwner, balance>>

NgoInitialize ==
    \E a \in NgoAddresses : NgoInvoke(ngo_initialize(ngo, a))

CreateImpactProduct ==
    /\ (IF ngo.counter = NoneOpt THEN 0 ELSE Unwrap(ngo.counter)) < MaxNgoProducts
    /\ \E creator \in NgoAddresses :
         NgoInvoke(create_impact_product(ngo, creator, "ipfs://m", 10, 50))

ListForSale ==
    \E seller \in NgoAddresses, id \in NgoProductIds, price \in NgoPrices :
        NgoInvoke(list_for_sale(ngo, seller, id, price))

PurchaseNft ==
    \E buyer \in NgoAddresses, id \in NgoProductIds :
        NgoInvoke(purchase_nft(ngo, buyer, id))

DelistProduct ==
    \E seller \in NgoAddresses, id \in NgoProductIds :
        NgoInvoke(delist_product(ngo, seller, id))

RegisterRoyalty ==
    \E id \in NgoProductIds, creator \in NgoAddresses :
        NgoInvoke(register_royalty(ngo, id, creator, Market))

SubmitForVerification ==
    \E id \in NgoProductIds : NgoInvoke(submit_for_verification(ngo, id))

ApproveProduct ==
    \E id \in NgoProductIds, verifier \in NgoAddresses :
        NgoInvoke(approve_product(ngo, id, verifier))

RejectProduct ==
    \E id \in NgoProductIds, verifier \in NgoAddresses :
        NgoInvoke(reject_product(ngo, id, verifier))

RegisterNgo ==
    \E owner \in NgoAddresses : NgoInvoke(_register_ngo(ngo, owner, "ngo", "about"))

NgoNext ==
    \/ NgoInitialize
    \/ CreateImpactProduct
    \/ ListForSale
    \/ PurchaseNft
    \/ DelistProduct
    \/ RegisterRoyalty
    \/ SubmitForVerification
    \/ ApproveProduct
    \/ RejectProduct
    \/ RegisterNgo

NgoSpec == Init /\ [][NgoNext]_vars

\* ================================================================ claims
\* The calls a claim quantifies over.  A call names its acting address, is
\* signed by it or not, and meets an NFT contract that completes its
\* transfer or aborts.
AuthInputs(caller) == {Signed(caller), {}}
PriceOptions == {Some(p) : p \in Prices} \cup {NoneOpt}
MetricsOptions == {Some(m) : m \in MetricsInputs} \cup {NoneOpt}

\* P holds of the result of every list / unlist / buy / batch / update call in st.
EveryGatedCall(st, P(_)) ==
    /\ \A c \in Addresses : \A auth \in AuthInputs(c), traps \in BOOLEAN :
         /\ \A price \in Prices, t \in TokenIds, m \in MetricsInputs :
              P(list_product(st, auth, traps, c, price, PaymentToken, NftContract, t, m))
         /\ \A id \in ProductIds :
              /\ P(unlist_product(st, auth, traps, c, id))
              /\ P(buy_product(st, auth, traps, c, id))
         /\ \A ids \in BatchInputs : P(batch_buy_products(st, auth, traps, c, ids))
    /\ \A c \in Addresses : \A auth \in AuthInputs(c) :
         \A id \in ProductIds, price \in PriceOptions, m \in MetricsOptions :
              P(update_product(st, auth, c, id, price, m))

\* P holds of the result of every pause / unpause / update_fee_percentage call in st.
EveryAdminCall(st, P(_)) ==
    \A c \in Addresses : \A auth \in AuthInputs(c) :
        /\ P(pause_contract(st, auth, c))
        /\ P(unpause_contract(st, auth, c))
        /\ \A f \in FeeInputs : P(update_fee_percentage(st, auth, c, f))

EveryInitializeCall(st, P(_)) ==
    \A c \in Addresses : \A auth \in AuthInputs(c) : \A f \in FeeInputs :
        P(initialize(st, auth, c, f))

Initialized == admin # None
Paused == config # NoneOpt /\ Unwrap(config).is_paused
Unpaused == config # NoneOpt /\ ~Unwrap(config).is_paused
FloorFee(p, f) == (p * f) \div FeeDenominator
SoldIds == {purchases[q].product_id : q \in DOMAIN purchases}

\* ---------------------------------------------------------------- C1
\* C1: every stored product that is listed with a price > 0 has its NFT
\* owned by the marketplace contract.
C1_EscrowCustody ==
    \A id \in DOMAIN products :
        (products[id].is_listed /\ products[id].price > 0)
            => nftOwner[products[id].nft_token_id] = Market

\* An NFT that was sold is listed again by its buyer and is back in custody.
C1_Witness ==
    \E id \in DOMAIN products, old \in SoldIds :
        /\ id # old
        /\ products[id].is_listed /\ products[id].price > 0
        /\ products[id].nft_token_id = products[old].nft_token_id
        /\ nftOwner[products[id].nft_token_id] = Market

\* ---------------------------------------------------------------- C2
\* C2: a buy_product that returns moves exactly floor(p*f/1000) payment tokens
\* from the buyer to the admin and p minus that to the seller, p the product's
\* price and f the fee_percentage in force; nothing is created or destroyed.
C2_FeeSplit ==
    \A buyer \in Addresses, id \in ProductIds :
      \A auth \in AuthInputs(buyer), traps \in BOOLEAN :
        LET r == buy_product(State, auth, traps, buyer, id) IN
        r.ok =>
            LET p == products[id].price
                fee == FloorFee(p, Unwrap(config).fee_percentage)
                seller == products[id].seller
            IN  /\ fee >= 0 /\ p - fee >= 0
                /\ \A a \in Addresses :
                     r.st.balance[a] - balance[a] =
                         (IF a = buyer THEN -p ELSE 0)
                       + (IF a = seller THEN p - fee ELSE 0)
                       + (IF a = admin THEN fee ELSE 0)
                /\ (Unwrap(config).fee_percentage = 25 /\ p = 1010) => (fee = 25 /\ p - fee = 985)

\* A product of price 1010 was bought under a fee of 25: 25 went to the admin
\* and 985 to the seller.
C2_Witness ==
    \E q \in DOMAIN purchases :
        /\ purchases[q].total_price = 1010 /\ purchases[q].platform_fee = 25
        /\ admin \notin {purchases[q].buyer, products[purchases[q].product_id].seller}
        /\ purchaseCounter = 1
        /\ balance[admin] = InitialBalance[admin] + 25
        /\ balance[purchases[q].buyer] = InitialBalance[purchases[q].buyer] - 1010
        /\ LET seller == products[purchases[q].product_id].seller
           IN  balance[seller] = InitialBalance[seller] + 985

\* ---------------------------------------------------------------- C3
\* C3: a buy_product that returns hands the escrowed NFT to the buyer, unlists
\* the product, raises PurchaseCounter by one, stores the Purchase under the
\* new id, appends that id to the buyer's index and returns it.
C3_BuyEffects ==
    \A buyer \in Addresses, id \in ProductIds :
      \A auth \in AuthInputs(buyer), traps \in BOOLEAN :
        LET r == buy_product(State, auth, traps, buyer, id) IN
        r.ok =>
            LET product == products[id]
                new == purchaseCounter + 1
            IN  /\ nftOwner[product.nft_token_id] = Market
                /\ r.st.nftOwner[product.nft_token_id] = buyer
                /\ r.st.products[id].is_listed = FALSE
                /\ r.st.purchaseCounter = new
                /\ DOMAIN r.st.purchases = DOMAIN purchases \cup {new}
                /\ r.st.purchases[new] =
                       [id |-> new, product_id |-> id, buyer |-> buyer,
                        total_price |-> product.price,
                        platform_fee |-> r.st.balance[admin] - balance[admin]
                                         + (IF admin = buyer THEN product.price ELSE 0)
                                         - (IF admin = product.seller
                                            THEN product.price
                                                 - FloorFee(product.price,
                                                            Unwrap(config).fee_percentage)
                                            ELSE 0),
                        nft_contract |-> product.nft_contract,
                        nft_token_id |-> product.nft_token_id,
                        timestamp |-> LedgerTimestamp]
                /\ r.st.buyerPurchases[buyer] = Append(buyerPurchases[buyer], new)
                /\ r.ret = new

\* A second purchase was made: its record is purchase 2 and its buyer owns the NFT.
C3_Witness ==
    /\ purchaseCounter = 2
    /\ 2 \in DOMAIN purchases
    /\ ~products[purchases[2].product_id].is_listed
    /\ nftOwner[purchases[2].nft_token_id] = purchases[2].buyer
    /\ Len(buyerPurchases[purchases[2].buyer]) >= 1

\* ---------------------------------------------------------------- C4
\* buy_product for each id in turn, each in the state the one before left.
RECURSIVE OneByOne(_, _, _, _, _)
OneByOne(st, auth, traps, buyer, ids) ==
    IF ids = <<>> THEN Ok(st, None)
    ELSE LET r == buy_product(st, auth, traps, buyer, Head(ids))
         IN  IF ~r.ok THEN r ELSE OneByOne(r.st, auth, traps, buyer, Tail(ids))

\* C4: a batch_buy_products in which buy_product fails for some id - called
\* alone, or at its turn in the batch - panics as a whole, and the state after
\* it (products, purchases, indices, counters, balances, NFT owners, events)
\* is the state before it.
C4_BatchAllOrNothing ==
    \A buyer \in Addresses, ids \in BatchInputs :
      \A auth \in AuthInputs(buyer), traps \in BOOLEAN :
        LET r == batch_buy_products(State, auth, traps, buyer, ids) IN
        (\/ \E i \in 1..Len(ids) : ~buy_product(State, auth, traps, buyer, ids[i]).ok
         \/ ~OneByOne(State, auth, traps, buyer, ids).ok)
            => (~r.ok /\ Committed(State, r) = State)

\* Product 1 is listed and product 2 is sold: the batch [1, 2] buys product 1
\* and then panics on product 2.
C4_Witness ==
    /\ DOMAIN products = {1, 2}
    /\ products[1].is_listed /\ 2 \in SoldIds
    /\ \E buyer \in Addresses :
         LET r == batch_buy_products(State, Signed(buyer), FALSE, buyer, <<1, 2>>) IN
         /\ ~r.ok /\ r.err = "ProductNotListed"
         /\ ~r.st.products[1].is_listed
         /\ r.st.purchaseCounter = purchaseCounter + 1
         /\ r.st.balance # balance
         /\ Committed(State, r) = State

\* ---------------------------------------------------------------- C5
\* C5: while the contract is paused every list_product, unlist_product,
\* buy_product, batch_buy_products and update_product call panics with
\* ContractPaused and changes nothing; the admin's pause_contract,
\* unpause_contract and update_fee_percentage still return; and after
\* unpause_contract no gated call is refused as paused.
C5_PauseGating ==
    Paused =>
        /\ EveryGatedCall(State, LAMBDA r :
               ~r.ok /\ r.err = "ContractPaused" /\ Committed(State, r) = State)
        /\ LET r == pause_contract(State, Signed(admin), admin)
           IN  r.ok /\ r.ret = FALSE /\ r.st = State
        /\ \A f \in FeeInputs : f <= MaxFeePercentage =>
               LET r == update_fee_percentage(State, Signed(admin), admin, f)
               IN  r.ok /\ Unwrap(r.st.config) = [fee_percentage |-> f, is_paused |-> TRUE]
        /\ LET r == unpause_contract(State, Signed(admin), admin)
           IN  /\ r.ok /\ r.ret = TRUE
               /\ r.st = [State EXCEPT !.config[1].is_paused = FALSE]
               /\ EveryGatedCall(r.st, LAMBDA g : g.err # "ContractPaused")

\* A paused contract with a listed product that a buyer can buy once the
\* admin has unpaused it.
C5_Witness ==
    /\ Paused
    /\ \E id \in DOMAIN products, buyer \in Addresses :
         /\ products[id].is_listed
         /\ buy_product(State, Signed(buyer), FALSE, buyer, id).err = "ContractPaused"
         /\ buy_product(unpause_contract(State, Signed(admin), admin).st,
                        Signed(buyer), FALSE, buyer, id).ok

\* ---------------------------------------------------------------- C6
\* What the purchases qs moved to (+) or from (-) address a.
RECURSIVE NetPayments(_, _, _, _, _)
NetPayments(a, qs, ps, prods, adm) ==
    IF qs = {} THEN 0
    ELSE LET q == CHOOSE x \in qs : TRUE
             p == ps[q]
         IN  (IF a = p.buyer THEN -p.total_price ELSE 0)
           + (IF a = prods[p.product_id].seller THEN p.total_price - p.platform_fee ELSE 0)
           + (IF a = adm THEN p.platform_fee ELSE 0)
           + NetPayments(a, qs \ {q}, ps, prods, adm)

\* A call that panics leaves the state as it was, and a call that returns
\* although the NFT contract aborted its transfer has moved neither payment
\* tokens nor an NFT.
C6_FailedCallsLeaveNoTrace ==
    /\ EveryGatedCall(State, LAMBDA r : ~r.ok => Committed(State, r) = State)
    /\ EveryAdminCall(State, LAMBDA r : ~r.ok => Committed(State, r) = State)
    /\ EveryInitializeCall(State, LAMBDA r : ~r.ok => Committed(State, r) = State)
    /\ \A c \in Addresses : \A auth \in AuthInputs(c) :
         LET Unmoved(r) == r.ok => (r.st.balance = balance /\ r.st.nftOwner = nftOwner)
         IN  /\ \A price \in Prices, t \in TokenIds, m \in MetricsInputs :
                  Unmoved(list_product(State, auth, TRUE, c, price, PaymentToken,
                                         NftContract, t, m))
             /\ \A id \in ProductIds :
                  /\ Unmoved(unlist_product(State, auth, TRUE, c, id))
                  /\ Unmoved(buy_product(State, auth, TRUE, c, id))
             /\ \A ids \in BatchInputs :
                  Unmoved(batch_buy_products(State, auth, TRUE, c, ids))

\* In every step: balances change by exactly what the purchases recorded in
\* the step say; each of these purchases' NFTs was in escrow and is now its
\* buyer's; and an NFT leaves escrow only to the buyer of such a purchase or,
\* with no payment, back to the seller of a product the step unlists.
C6_PaidIffReceived ==
    LET new == DOMAIN purchases' \ DOMAIN purchases IN
    /\ \A a \in Addresses :
         balance'[a] - balance[a] = NetPayments(a, new, purchases', products', admin')
    /\ \A q \in new :
         /\ nftOwner[purchases'[q].nft_token_id] = Market
         /\ nftOwner'[purchases'[q].nft_token_id] = purchases'[q].buyer
    /\ \A t \in TokenIds :
         (nftOwner[t] = Market /\ nftOwner'[t] # Market) =>
             \/ \E q \in new : purchases'[q].nft_token_id = t
             \/ /\ balance' = balance
                /\ \E id \in DOMAIN products :
                     /\ products[id].nft_token_id = t
                     /\ products[id].is_listed /\ ~products'[id].is_listed
                     /\ nftOwner'[t] = products[id].seller

\* C6: no partial state is ever visible: a failed call of any entry point
\* leaves the whole state unchanged, and no step leaves a buyer who paid
\* without receiving the NFT or received it without paying.
C6_NoPartialState ==
    [] C6_FailedCallsLeaveNoTrace /\ [][C6_PaidIffReceived]_vars

\* A purchase has been made, and a buy_product whose NFT transfer aborts
\* after both token transfers went through is discarded as a whole.
C6_Witness ==
    /\ purchaseCounter >= 1
    /\ \E buyer \in Addresses, id \in ProductIds :
         LET r == buy_product(State, Signed(buyer), TRUE, buyer, id) IN
         /\ ~r.ok /\ r.err = "NftTransferFailed"
         /\ r.st.balance[buyer] = balance[buyer] - products[id].price
         /\ products[id].price > 0
         /\ r.st.nftOwner = nftOwner
         /\ Committed(State, r) = State

\* ---------------------------------------------------------------- C7
\* The elements of ids before the first id.
RECURSIVE Before(_, _)
Before(ids, id) ==
    IF ids = <<>> \/ Head(ids) = id THEN <<>>
    ELSE <<Head(ids)>> \o Before(Tail(ids), id)

\* The product stays listed, its NFT in escrow and the balances as they were.
Untouched(st, id) ==
    /\ st.products[id].is_listed
    /\ st.nftOwner[st.products[id].nft_token_id] = Market
    /\ st.balance = balance

\* C7, as stated: for every listed product, its seller's buy_product, alone or
\* as the element a batch has come to, fails with CannotBuyOwnNFT and leaves
\* the product listed, the NFT in escrow and the balances unchanged.
C7_Original ==
    \A id \in DOMAIN products : products[id].is_listed =>
        LET seller == products[id].seller IN
        /\ LET r == buy_product(State, Signed(seller), FALSE, seller, id)
           IN  ~r.ok /\ r.err = "CannotBuyOwnNFT" /\ Untouched(Committed(State, r), id)
        /\ \A ids \in BatchInputs :
             (/\ \E i \in 1..Len(ids) : ids[i] = id
              /\ OneByOne(State, Signed(seller), FALSE, seller, Before(ids, id)).ok) =>
             LET r == batch_buy_products(State, Signed(seller), FALSE, seller, ids)
             IN  ~r.ok /\ r.err = "CannotBuyOwnNFT" /\ Untouched(Committed(State, r), id)

\* C7, amended: for every listed product, its seller's buy_product, alone or
\* as an element of a batch, fails and leaves the product listed, the NFT in
\* escrow and the balances unchanged; on an unpaused contract the error is
\* CannotBuyOwnNFT, for a batch when the elements before the product were
\* bought; on a paused contract it is ContractPaused.
C7_SellerCannotBuyOwn ==
    \A id \in DOMAIN products : products[id].is_listed =>
        LET seller == products[id].seller IN
        \A traps \in BOOLEAN :
        /\ LET r == buy_product(State, Signed(seller), traps, seller, id)
           IN  /\ ~r.ok /\ Untouched(Committed(State, r), id)
               /\ r.err = IF Paused THEN "ContractPaused" ELSE "CannotBuyOwnNFT"
        /\ \A ids \in BatchInputs : (\E i \in 1..Len(ids) : ids[i] = id) =>
             LET r == batch_buy_products(State, Signed(seller), traps, seller, ids)
             IN  /\ ~r.ok /\ Untouched(Committed(State, r), id)
                 /\ Paused => r.err = "ContractPaused"
                 /\ (Unpaused /\ OneByOne(State, Signed(seller), traps, seller,
                                          Before(ids, id)).ok)
                        => r.err = "CannotBuyOwnNFT"

\* On an unpaused contract a seller buys another seller's product and then,
\* in the same batch, reaches its own listed product.
C7_Witness ==
    /\ Unpaused
    /\ \E i \in DOMAIN products, id \in DOMAIN products :
         LET seller == products[id].seller
             r == batch_buy_products(State, Signed(seller), FALSE, seller, <<i, id>>)
         IN  /\ i # id /\ products[id].is_listed /\ products[id].price > 0
             /\ buy_product(State, Signed(seller), FALSE, seller, id).err = "CannotBuyOwnNFT"
             /\ buy_product(State, Signed(seller), FALSE, seller, i).ok
             /\ ~r.ok /\ r.err = "CannotBuyOwnNFT"
             /\ r.st.purchaseCounter = purchaseCounter + 1

\* ---------------------------------------------------------------- C8
\* C8: once initialize has succeeded, every initialize - any admin, any fee,
\* a fee above 300 included, authorized or not - panics with
\* AlreadyInitialized, and admin, config, counters, products and purchases
\* stay as they are.
C8_InitializeOnce ==
    Initialized =>
        EveryInitializeCall(State, LAMBDA r :
            /\ ~r.ok /\ r.err = "AlreadyInitialized"
            /\ Committed(State, r) = State)

\* A contract with products, a purchase and a changed config, on which
\* another address calls initialize with a fee above the maximum.
C8_Witness ==
    /\ Initialized /\ productCounter = MaxProducts /\ purchaseCounter >= 1
    /\ Unwrap(config).is_paused
    /\ \E a \in Addresses \ {admin} :
         LET r == initialize(State, Signed(a), a, MaxFeePercentage + 1)
         IN  ~r.ok /\ r.err = "AlreadyInitialized"

\* ---------------------------------------------------------------- C9
\* C9: from the first successful initialize on, no step changes the admin,
\* and get_admin returns the admin that initialize stored.
C9_AdminImmutable ==
    [][Initialized => /\ admin' = admin
                      /\ get_admin(State).ok /\ get_admin(State).ret = admin
                      /\ get_admin(State)'.ok /\ get_admin(State)'.ret = admin]_vars

\* The contract was initialized by a1, has sold a product to a1, and is
\* paused: a3 may call initialize again, and get_admin still returns a1.
C9_Witness ==
    /\ Initialized /\ admin = "a1" /\ get_admin(State).ret = "a1"
    /\ Paused
    /\ \E q \in DOMAIN purchases : purchases[q].buyer = "a1"
    /\ ~initialize(State, Signed("a3"), "a3", 25).ok

\* ---------------------------------------------------------------- C10
\* C10: the stored fee_percentage is at most 300 in every state; initialize
\* and update_fee_percentage with a fee above 300 panic and leave the state
\* unchanged; the first initialize, and the admin's update_fee_percentage,
\* with a fee of at most 300 store exactly that fee.
C10_FeeBound ==
    /\ config # NoneOpt => Unwrap(config).fee_percentage <= MaxFeePercentage
    /\ \A c \in Addresses, f \in FeeInputs : \A auth \in AuthInputs(c) :
         LET i == initialize(State, auth, c, f)
             u == update_fee_percentage(State, auth, c, f)
         IN  /\ f > MaxFeePercentage =>
                  /\ ~i.ok /\ Committed(State, i) = State
                  /\ ~u.ok /\ Committed(State, u) = State
             /\ (f > MaxFeePercentage /\ ~Initialized) => i.err = "Fee percentage too high"
             /\ (f > MaxFeePercentage /\ c = admin /\ c \in auth) => u.err = "Fee percentage too high"
             /\ (f <= MaxFeePercentage /\ ~Initialized /\ c \in auth) =>
                  /\ i.ok /\ i.st.admin = c
                  /\ Unwrap(i.st.config).fee_percentage = f
             /\ (f <= MaxFeePercentage /\ c = admin /\ c \in auth) =>
                  /\ u.ok
                  /\ Unwrap(Committed(State, u).config).fee_percentage = f
                  /\ Committed(State, u) = [State EXCEPT !.config[1].fee_percentage = f]

\* The fee was raised to the maximum after products were listed, and the
\* admin's update to one more is refused.
C10_Witness ==
    /\ Initialized /\ productCounter >= 1
    /\ Unwrap(config).fee_percentage = MaxFeePercentage
    /\ update_fee_percentage(State, Signed(admin), admin, MaxFeePercentage + 1).err
         = "Fee percentage too high"
    /\ update_fee_percentage(State, Signed(admin), admin, 25).ok

\* ---------------------------------------------------------------- C11
\* The state a step leaves is the one `r` commits.
StepOf(r) == r.ok /\ State' = r.st

\* C11, in a state: an address that is not the admin is refused by
\* pause_contract, unpause_contract and update_fee_percentage with
\* Unauthorized, the config unchanged; no such call changes the config
\* unless the admin signed it; and no list, unlist, buy, batch or update
\* call writes the config, not even before it panics.
C11_OnlyAdminCalls ==
    Initialized =>
        /\ \A c \in Addresses \ {admin} :
             /\ LET r == pause_contract(State, Signed(c), c)
                IN  ~r.ok /\ r.err = "Unauthorized" /\ Committed(State, r).config = config
             /\ LET r == unpause_contract(State, Signed(c), c)
                IN  ~r.ok /\ r.err = "Unauthorized" /\ Committed(State, r).config = config
             /\ \A f \in FeeInputs :
                  LET r == update_fee_percentage(State, Signed(c), c, f)
                  IN  ~r.ok /\ r.err = "Unauthorized" /\ Committed(State, r).config = config
        /\ \A c \in Addresses : \A auth \in AuthInputs(c) :
             (c # admin \/ c \notin auth) =>
                 /\ Committed(State, pause_contract(State, auth, c)).config = config
                 /\ Committed(State, unpause_contract(State, auth, c)).config = config
                 /\ \A f \in FeeInputs :
                      Committed(State, update_fee_percentage(State, auth, c, f)).config
                          = config
        /\ EveryGatedCall(State, LAMBDA r : r.st.config = config)
        /\ EveryInitializeCall(State, LAMBDA r : Committed(State, r).config = config)

\* C11, in a step: a step of an initialized contract that changes
\* fee_percentage or is_paused is a pause_contract, an unpause_contract or an
\* update_fee_percentage with the stored admin's address, signed by the admin.
C11_ConfigStep ==
    (Initialized /\ config' # config) =>
        \/ StepOf(pause_contract(State, Signed(admin), admin))
        \/ StepOf(unpause_contract(State, Signed(admin), admin))
        \/ \E f \in FeeInputs : StepOf(update_fee_percentage(State, Signed(admin), admin, f))

\* C11: the config is mutated only by the admin.
C11_ConfigOnlyByAdmin ==
    [] C11_OnlyAdminCalls /\ [][C11_ConfigStep]_vars

\* The admin has paused the contract and raised the fee while a product is
\* listed; another address's unpause_contract is refused.
C11_Witness ==
    /\ Paused /\ Unwrap(config).fee_percentage = MaxFeePercentage
    /\ \E id \in DOMAIN products : products[id].is_listed
    /\ \E c \in Addresses \ {admin} :
         /\ unpause_contract(State, Signed(c), c).err = "Unauthorized"
         /\ c \in {products[id].seller : id \in DOMAIN products}
    /\ unpause_contract(State, Signed(admin), admin).st.config # config

\* ---------------------------------------------------------------- C12
\* The greatest product id stored in st, 0 when there is none.
MaxProductId(st) ==
    IF DOMAIN st.products = {} THEN 0
    ELSE CHOOSE m \in DOMAIN st.products : \A x \in DOMAIN st.products : x <= m

\* C12, in a state: the stored product ids are 1..ProductCounter, each
\* product carries its id; a list_product that returns, returns the greatest
\* stored id + 1 (1 when nothing is stored), an id no stored product has, and
\* stores exactly that product more; one that panics leaves counter and
\* products as they were.
C12_IdsGapFree ==
    /\ DOMAIN products = 1..productCounter
    /\ productCounter = Cardinality(DOMAIN products)
    /\ \A id \in DOMAIN products : products[id].id = id
    /\ \A c \in Addresses : \A auth \in AuthInputs(c), traps \in BOOLEAN :
         \A price \in Prices, t \in TokenIds, m \in MetricsInputs :
           LET r == list_product(State, auth, traps, c, price, PaymentToken,
                                 NftContract, t, m)
               after == Committed(State, r)
           IN  /\ r.ok =>
                    /\ r.ret = MaxProductId(State) + 1
                    /\ r.ret \notin DOMAIN products
                    /\ DOMAIN after.products = DOMAIN products \cup {r.ret}
                    /\ after.productCounter = Cardinality(DOMAIN after.products)
                    /\ \A id \in DOMAIN products : after.products[id] = products[id]
               /\ ~r.ok =>
                    /\ after.productCounter = productCounter
                    /\ after.products = products
                    /\ MaxProductId(after) = MaxProductId(State)

\* C12, in a step: the counter never goes back, a step adds at most the id
\* ProductCounter + 1, and a stored id stays the id of the same seller's
\* listing of the same NFT, whether listed, unlisted or sold.
C12_IdsStep ==
    /\ productCounter' \in {productCounter, productCounter + 1}
    /\ DOMAIN products' = 1..productCounter'
    /\ \A id \in DOMAIN products :
         /\ id \in DOMAIN products'
         /\ products'[id].id = id
         /\ products'[id].seller = products[id].seller
         /\ products'[id].nft_token_id = products[id].nft_token_id

\* C12: product ids are allocated increasing and gap-free, and never reused.
C12_ProductIdAllocation ==
    [] C12_IdsGapFree /\ [][C12_IdsStep]_vars

\* Product 1 is no longer listed and its NFT is listed again as product 2;
\* a list_product of a non-owner fails, and the next one that succeeds
\* returns 3.
C12_Witness ==
    /\ DOMAIN products = {1, 2}
    /\ ~products[1].is_listed /\ products[2].is_listed
    /\ products[2].nft_token_id = products[1].nft_token_id
    /\ \E c \in Addresses, t \in TokenIds :
         ~list_product(State, Signed(c), FALSE, c, 1010, PaymentToken, NftContract, t,
                       "{}").ok
    /\ \E c \in Addresses, t \in TokenIds :
         LET r == list_product(State, Signed(c), FALSE, c, 1010, PaymentToken,
                               NftContract, t, "{}")
         IN  r.ok /\ r.ret = 3

\* ---------------------------------------------------------------- C13
\* From `before` to `after` every product record is kept, a product that is
\* not listed stays not listed, a sold one stays sold and an unlisted one
\* is not sold.
LifecycleKept(before, after) ==
    LET sold(st) == {st.purchases[q].product_id : q \in DOMAIN st.purchases} IN
    \A id \in DOMAIN before.products :
        /\ id \in DOMAIN after.products
        /\ ~before.products[id].is_listed =>
               /\ ~after.products[id].is_listed
               /\ id \in sold(after) <=> id \in sold(before)

\* C13, in a state: no call of any entry point, by any caller, deletes a
\* product record or sets a product that is not listed back to listed;
\* list_product and update_product leave every listed product listed; and a
\* list_product that returns - also for an NFT that was listed before -
\* creates a new id and leaves the records of the earlier ids as they are.
C13_NoCallRelists ==
    /\ EveryGatedCall(State, LAMBDA r : LifecycleKept(State, Committed(State, r)))
    /\ EveryAdminCall(State, LAMBDA r : LifecycleKept(State, Committed(State, r)))
    /\ EveryInitializeCall(State, LAMBDA r : LifecycleKept(State, Committed(State, r)))
    /\ \A c \in Addresses : \A auth \in AuthInputs(c) :
         /\ \A price \in Prices, t \in TokenIds, m \in MetricsInputs, traps \in BOOLEAN :
              LET r == list_product(State, auth, traps, c, price, PaymentToken,
                                    NftContract, t, m)
              IN  r.ok => /\ r.ret \notin DOMAIN products
                          /\ r.st.products[r.ret].is_listed
                          /\ \A id \in DOMAIN products : r.st.products[id] = products[id]
         /\ \A id \in ProductIds, price \in PriceOptions, m \in MetricsOptions :
              LET r == update_product(State, auth, c, id, price, m)
              IN  \A i \in DOMAIN products :
                      Committed(State, r).products[i].is_listed = products[i].is_listed

\* C13: a product is Listed and then Sold or Unlisted for good: no step sets
\* is_listed of an id back to true or deletes a product record, and listing
\* the same NFT again creates a new product id.
C13_ProductLifecycle ==
    [] C13_NoCallRelists /\ [][LifecycleKept(State, State')]_vars

\* A seller has unlisted product 1 and listed the same NFT again: it is
\* product 2, product 1 stays unlisted and cannot be updated.
C13_Witness ==
    /\ DOMAIN products = {1, 2}
    /\ ~products[1].is_listed /\ 1 \notin SoldIds
    /\ products[2].is_listed
    /\ products[2].nft_token_id = products[1].nft_token_id
    /\ products[2].seller = products[1].seller
    /\ Unpaused
    /\ LET seller == products[1].seller
       IN  /\ update_product(State, Signed(seller), seller, 1, Some(1010), NoneOpt).err
                = "ProductNotListed"
           /\ unlist_product(State, Signed(seller), FALSE, seller, 1).ret = FALSE

\* ---------------------------------------------------------------- C14
\* C14: get_product right after a list_product that returned id gives the
\* product with that id, the arguments of the call and is_listed = true;
\* right after a buy_product or an unlist_product of id that succeeded it
\* gives the product as it was, with is_listed = false.
C14_ListGetRoundTrip ==
    \A c \in Addresses : \A auth \in AuthInputs(c), traps \in BOOLEAN :
      /\ \A price \in Prices, t \in TokenIds, m \in MetricsInputs :
           LET r == list_product(State, auth, traps, c, price, PaymentToken,
                                 NftContract, t, m)
           IN  r.ok =>
                 get_product(r.st, r.ret) =
                   Some([id |-> r.ret, price |-> price, seller |-> c,
                         token |-> PaymentToken, nft_contract |-> NftContract,
                         nft_token_id |-> t, impact_metrics |-> m, is_listed |-> TRUE])
      /\ \A id \in ProductIds :
           /\ LET r == buy_product(State, auth, traps, c, id)
              IN  r.ok => get_product(r.st, id)
                            = Some([products[id] EXCEPT !.is_listed = FALSE])
           /\ LET r == unlist_product(State, auth, traps, c, id)
              IN  r.ok => get_product(r.st, id)
                            = Some([products[id] EXCEPT !.is_listed = FALSE])

\* A listed product that one address can buy and its seller can unlist,
\* while another NFT can be listed with non-empty impact metrics.
C14_Witness ==
    /\ Unpaused
    /\ \E id \in DOMAIN products, buyer \in Addresses :
         /\ products[id].is_listed
         /\ buy_product(State, Signed(buyer), FALSE, buyer, id).ok
         /\ unlist_product(State, Signed(products[id].seller), FALSE,
                           products[id].seller, id).ret = TRUE
         /\ get_product(State, id) = Some(products[id])
    /\ get_product(State, productCounter + 1) = NoneOpt
    /\ \E c \in Addresses, t \in TokenIds :
         LET r == list_product(State, Signed(c), FALSE, c, 1010, PaymentToken,
                               NftContract, t, "{carbon_offset:100kg}")
         IN  r.ok /\ Unwrap(get_product(r.st, r.ret)).impact_metrics = "{carbon_offset:100kg}"

\* ---------------------------------------------------------------- C15
\* C15: on an unpaused contract a list_product by a seller who is not the
\* NFT's current owner panics with Unauthorized; no product is stored,
\* ProductCounter and the seller index are unchanged, the NFT does not move
\* and no event is published.
C15_OnlyOwnerLists ==
    Unpaused =>
        \A c \in Addresses, t \in TokenIds : nftOwner[t] # c =>
            \A price \in Prices, m \in MetricsInputs, traps \in BOOLEAN :
              /\ LET r == list_product(State, Signed(c), traps, c, price, PaymentToken,
                                       NftContract, t, m)
                     after == Committed(State, r)
                 IN  /\ ~r.ok /\ r.err = "Unauthorized"
                     /\ after.products = products
                     /\ after.productCounter = productCounter
                     /\ after.sellerProducts = sellerProducts
                     /\ after.nftOwner = nftOwner
                     /\ after.events = events
                     /\ r.st = State
              /\ LET r == list_product(State, {}, traps, c, price, PaymentToken,
                                       NftContract, t, m)
                 IN  ~r.ok /\ Committed(State, r) = State

\* The NFT of a sold product belongs to its buyer: its former seller cannot
\* list it again, nor can anyone list an NFT that is in escrow, while the
\* buyer can.
C15_Witness ==
    /\ Unpaused
    /\ \E q \in DOMAIN purchases :
         LET p == purchases[q]
             seller == products[p.product_id].seller IN
         /\ nftOwner[p.nft_token_id] = p.buyer
         /\ list_product(State, Signed(seller), FALSE, seller, 1010, PaymentToken,
                         NftContract, p.nft_token_id, "{}").err = "Unauthorized"
         /\ productCounter < MaxProducts
         /\ list_product(State, Signed(p.buyer), FALSE, p.buyer, 1010, PaymentToken,
                         NftContract, p.nft_token_id, "{}").ok

C17_Original ==
    \A id \in DOMAIN products : ~products[id].is_listed =>
        \A c \in {products[id].seller, admin}, traps \in BOOLEAN :
            LET r == unlist_product(State, Signed(c), traps, c, id)
            IN  r.ok /\ r.ret = FALSE /\ r.st = State

\* C17, amended: unlist_product by the seller or the admin on a product that
\* is not listed (unlisted before, or sold) makes no NFT transfer and leaves
\* the whole state unchanged, the NFT of a sold product with its buyer; on an
\* unpaused contract it returns false, on a paused contract it panics with
\* ContractPaused.
C17_UnlistNotListedNoOp ==
    \A id \in DOMAIN products : ~products[id].is_listed =>
        \A c \in {products[id].seller, admin}, traps \in BOOLEAN :
            LET r == unlist_product(State, Signed(c), traps, c, id)
            IN  /\ Unpaused => (r.ok /\ r.ret = FALSE /\ r.st = State)
                /\ Paused => (~r.ok /\ r.err = "ContractPaused")
                /\ Committed(State, r) = State
                /\ r.st.nftOwner = nftOwner
                /\ \A q \in DOMAIN purchases :
                     (purchases[q].product_id = id
                        /\ nftOwner[purchases[q].nft_token_id] = purchases[q].buyer)
                     => r.st.nftOwner[purchases[q].nft_token_id] = purchases[q].buyer

\* On an unpaused contract a product was sold and its NFT is with the buyer:
\* unlist_product by its seller, and by the admin, returns false.
C17_Witness ==
    /\ Unpaused
    /\ \E q \in DOMAIN purchases :
         LET p == purchases[q]
             seller == products[p.product_id].seller
         IN  /\ ~products[p.product_id].is_listed
             /\ nftOwner[p.nft_token_id] = p.buyer
             /\ seller # admin
             /\ unlist_product(State, Signed(seller), FALSE, seller, p.product_id).ret = FALSE
             /\ unlist_product(State, Signed(admin), FALSE, admin, p.product_id).ret = FALSE

\* ---------------------------------------------------------------- C18
\* C18: update_product panics with ContractPaused on a paused contract,
\* else with ProductNotFound for an id that is not stored, else with
\* Unauthorized for a caller who is not the product's seller (the admin
\* included), else with ProductNotListed for a product that is not listed,
\* and then changes nothing.  Otherwise it returns true, and the state
\* differs only in the price and the impact metrics of that product, each
\* only if it was passed as Some.
C18_UpdateProduct ==
    config # NoneOpt =>
      \A c \in Addresses, id \in ProductIds, price \in PriceOptions, m \in MetricsOptions :
        LET r == update_product(State, Signed(c), c, id, price, m)
            expected ==
                IF Paused THEN "ContractPaused"
                ELSE IF id \notin DOMAIN products THEN "ProductNotFound"
                ELSE IF products[id].seller # c THEN "Unauthorized"
                ELSE IF ~products[id].is_listed THEN "ProductNotListed"
                ELSE NoErr
        IN  /\ r.err = expected
            /\ r.ok <=> expected = NoErr
            /\ ~r.ok => Committed(State, r) = State
            /\ r.ok =>
                 /\ r.ret = TRUE
                 /\ r.st.products[id].price =
                        IF price = NoneOpt THEN products[id].price ELSE Unwrap(price)
                 /\ r.st.products[id].impact_metrics =
                        IF m = NoneOpt THEN products[id].impact_metrics ELSE Unwrap(m)
                 /\ r.st = [State EXCEPT
                              !.products[id].price = r.st.products[id].price,
                              !.products[id].impact_metrics =
                                  r.st.products[id].impact_metrics]

\* A listed product whose seller is not the admin: the admin's update is
\* refused, the seller's update of the price alone changes the price and
\* keeps the metrics, and an update of a sold product is refused.
C18_Witness ==
    /\ Unpaused
    /\ \E id \in DOMAIN products :
         LET product == products[id]
             r == update_product(State, Signed(product.seller), product.seller, id,
                                 Some(0), NoneOpt)
         IN  /\ product.is_listed /\ product.seller # admin /\ product.price = 1010
             /\ update_product(State, Signed(admin), admin, id, Some(0), NoneOpt).err
                  = "Unauthorized"
             /\ r.ok /\ r.st.products[id].price = 0
             /\ r.st.products[id].impact_metrics = product.impact_metrics
    /\ \E id \in SoldIds :
         update_product(State, Signed(products[id].seller), products[id].seller, id,
                        NoneOpt, Some("{}")).err = "ProductNotListed"

\* ---------------------------------------------------------------- C19
\* C19: called by the admin, pause_contract on an unpaused contract returns
\* true and sets is_paused, on a paused contract it returns false and
\* changes nothing; unpause_contract on a paused contract returns true and
\* clears is_paused, on an unpaused contract it returns false and changes
\* nothing; neither touches fee_percentage or anything else; and a pause
\* followed by an unpause (an unpause followed by a pause) leaves the state
\* the pause (the unpause) started from.
C19_PauseToggles ==
    Initialized =>
        LET p == pause_contract(State, Signed(admin), admin)
            u == unpause_contract(State, Signed(admin), admin)
        IN  /\ p.ok /\ u.ok
            /\ Unwrap(p.st.config).fee_percentage = Unwrap(config).fee_percentage
            /\ Unwrap(u.st.config).fee_percentage = Unwrap(config).fee_percentage
            /\ Unwrap(p.st.config).is_paused /\ ~Unwrap(u.st.config).is_paused
            /\ Unpaused =>
                 /\ p.ret = TRUE
                 /\ p.st = [State EXCEPT !.config[1].is_paused = TRUE]
                 /\ u.ret = FALSE /\ u.st = State
                 /\ LET pu == unpause_contract(p.st, Signed(admin), admin)
                    IN  pu.ok /\ pu.ret = TRUE /\ pu.st = State
            /\ Paused =>
                 /\ u.ret = TRUE
                 /\ u.st = [State EXCEPT !.config[1].is_paused = FALSE]
                 /\ p.ret = FALSE /\ p.st = State
                 /\ LET up == pause_contract(u.st, Signed(admin), admin)
                    IN  up.ok /\ up.ret = TRUE /\ up.st = State

\* A paused contract with the fee at its maximum and a listed product: the
\* admin's second pause_contract returns false, the unpause returns true.
C19_Witness ==
    /\ Paused /\ Unwrap(config).fee_percentage = MaxFeePercentage
    /\ \E id \in DOMAIN products : products[id].is_listed
    /\ purchaseCounter >= 1
    /\ pause_contract(State, Signed(admin), admin).ret = FALSE
    /\ unpause_contract(State, Signed(admin), admin).ret = TRUE

\* ---------------------------------------------------------------- C20
\* C20, as stated: update_fee_percentage by the admin with the fee the config
\* already has returns false, and it returns true only when the stored fee
\* changes.
C20_Original ==
    Initialized =>
        \A f \in FeeInputs : f <= MaxFeePercentage =>
            LET r == update_fee_percentage(State, Signed(admin), admin, f)
            IN  /\ r.ok
                /\ f = Unwrap(config).fee_percentage => r.ret = FALSE
                /\ r.ret = TRUE => Unwrap(r.st.config).fee_percentage
                                       # Unwrap(config).fee_percentage

\* C20, amended: update_fee_percentage by the admin with a fee of at most 300
\* stores the fee and returns true, also when the fee is the one the config
\* already has and the call changes no state; it never returns false.
C20_UpdateFeeReturnsTrue ==
    Initialized =>
        \A f \in FeeInputs : f <= MaxFeePercentage =>
            LET r == update_fee_percentage(State, Signed(admin), admin, f)
            IN  /\ r.ok /\ r.ret = TRUE
                /\ r.st = [State EXCEPT !.config[1].fee_percentage = f]
                /\ f = Unwrap(config).fee_percentage => r.st = State

\* The fee is 300 after an update, with a product listed: updating it to 300
\* again returns true and changes nothing.
C20_Witness ==
    /\ Initialized /\ Unwrap(config).fee_percentage = MaxFeePercentage
    /\ productCounter >= 1
    /\ LET r == update_fee_percentage(State, Signed(admin), admin, MaxFeePercentage)
       IN  r.ok /\ r.ret = TRUE /\ r.st = State
    /\ LET r == update_fee_percentage(State, Signed(admin), admin, 25)
       IN  r.ok /\ r.ret = TRUE /\ r.st # State

\* ---------------------------------------------------------------- C21
\* C21, as stated: on an unpaused contract buy_product panics with
\* ProductNotFound for an id that is not stored, with ProductNotListed for a
\* product that is not listed, and with InsufficientFunds for a listed
\* product whose price exceeds the buyer's balance; nothing has moved or
\* been recorded.
C21_Original ==
    Unpaused =>
        \A buyer \in Addresses, id \in ProductIds, traps \in BOOLEAN :
            LET r == buy_product(State, Signed(buyer), traps, buyer, id) IN
            /\ id \notin DOMAIN products =>
                   (~r.ok /\ r.err = "ProductNotFound" /\ r.st = State)
            /\ (id \in DOMAIN products /\ ~products[id].is_listed) =>
                   (~r.ok /\ r.err = "ProductNotListed" /\ r.st = State)
            /\ (id \in DOMAIN products /\ products[id].is_listed
                  /\ balance[buyer] < products[id].price) =>
                   (~r.ok /\ r.err = "InsufficientFunds" /\ r.st = State)

\* C21, amended: as above, with InsufficientFunds for a listed product whose
\* price exceeds the balance of a buyer who is not its seller (its seller is
\* refused with CannotBuyOwnNFT before the balance is read); and a product
\* that was bought cannot be bought again: no two purchases are of the same
\* product, and after a buy_product that returned another one of the same id
\* panics with ProductNotListed.
C21_BuyFailureKinds ==
    /\ \A q1, q2 \in DOMAIN purchases :
           purchases[q1].product_id = purchases[q2].product_id => q1 = q2
    /\ Unpaused =>
        \A buyer \in Addresses, id \in ProductIds, traps \in BOOLEAN :
            LET r == buy_product(State, Signed(buyer), traps, buyer, id) IN
            /\ id \notin DOMAIN products =>
                   (~r.ok /\ r.err = "ProductNotFound" /\ r.st = State)
            /\ (id \in DOMAIN products /\ ~products[id].is_listed) =>
                   (~r.ok /\ r.err = "ProductNotListed" /\ r.st = State)
            /\ (id \in DOMAIN products /\ products[id].is_listed
                  /\ balance[buyer] < products[id].price) =>
                   /\ ~r.ok /\ r.st = State
                   /\ r.err = IF products[id].seller = buyer THEN "CannotBuyOwnNFT"
                              ELSE "InsufficientFunds"
            /\ r.ok =>
                   \A b \in Addresses :
                       buy_product(r.st, Signed(b), FALSE, b, id).err = "ProductNotListed"

\* One product is sold and the buyer cannot afford the other, listed one;
\* an id beyond the counter is not found.
C21_Witness ==
    /\ Unpaused
    /\ \E id \in DOMAIN products, sold \in SoldIds, buyer \in Addresses :
         /\ products[id].is_listed /\ products[id].seller # buyer
         /\ balance[buyer] < products[id].price
         /\ buy_product(State, Signed(buyer), FALSE, buyer, id).err = "InsufficientFunds"
         /\ buy_product(State, Signed(buyer), FALSE, buyer, sold).err = "ProductNotListed"
         /\ buy_product(State, Signed(buyer), FALSE, buyer, productCounter + 1).err
              = "ProductNotFound"

\* ---------------------------------------------------------------- C22
\* Every purchase of `before` is in `after`, unchanged.
PurchasesKept(before, after) ==
    \A q \in DOMAIN before.purchases :
        q \in DOMAIN after.purchases /\ after.purchases[q] = before.purchases[q]

\* C22, in a state: the purchase ids are 1..PurchaseCounter, each record
\* carries its id, no two records are of the same product; a buy_product
\* that returns adds exactly one record, with id PurchaseCounter + 1; a batch
\* that returns adds one per element; every other call, and every call that
\* panics, leaves the purchases as they are.
C22_PurchasesOncePerBuy ==
    /\ DOMAIN purchases = 1..purchaseCounter
    /\ \A q \in DOMAIN purchases : purchases[q].id = q
    /\ \A q1, q2 \in DOMAIN purchases :
           purchases[q1].product_id = purchases[q2].product_id => q1 = q2
    /\ EveryGatedCall(State, LAMBDA r : PurchasesKept(State, Committed(State, r)))
    /\ EveryAdminCall(State, LAMBDA r : Committed(State, r).purchases = purchases)
    /\ EveryInitializeCall(State, LAMBDA r : Committed(State, r).purchases = purchases)
    /\ \A c \in Addresses : \A auth \in AuthInputs(c), traps \in BOOLEAN :
         /\ \A id \in ProductIds :
              /\ LET r == buy_product(State, auth, traps, c, id)
                     after == Committed(State, r)
                 IN  /\ r.ok =>
                          /\ DOMAIN after.purchases = DOMAIN purchases \cup {purchaseCounter + 1}
                          /\ purchaseCounter + 1 \notin DOMAIN purchases
                          /\ after.purchaseCounter = purchaseCounter + 1
                          /\ after.purchases[purchaseCounter + 1].product_id = id
                     /\ ~r.ok => (after.purchases = purchases
                                    /\ after.purchaseCounter = purchaseCounter)
              /\ Committed(State, unlist_product(State, auth, traps, c, id)).purchases
                     = purchases
              /\ \A price \in PriceOptions, m \in MetricsOptions :
                     Committed(State, update_product(State, auth, c, id, price, m)).purchases
                         = purchases
         /\ \A price \in Prices, t \in TokenIds, m \in MetricsInputs :
              Committed(State, list_product(State, auth, traps, c, price, PaymentToken,
                                            NftContract, t, m)).purchases = purchases
         /\ \A ids \in BatchInputs :
              LET r == batch_buy_products(State, auth, traps, c, ids)
              IN  r.ok => DOMAIN r.st.purchases
                            = 1..(purchaseCounter + Len(ids))

\* C22, in a step: no step modifies or deletes a purchase, the counter never
\* goes back, and the ids stay 1..PurchaseCounter.
C22_PurchasesStep ==
    /\ PurchasesKept(State, State')
    /\ purchaseCounter' >= purchaseCounter
    /\ DOMAIN purchases' = 1..purchaseCounter'

\* C22: purchase records are created once per successful purchase and are
\* immutable.
C22_PurchasesImmutable ==
    [] C22_PurchasesOncePerBuy /\ [][C22_PurchasesStep]_vars

\* Two purchases, of two products, are stored, and the NFT of the first was
\* listed and sold again.
C22_Witness ==
    /\ purchaseCounter = 2 /\ DOMAIN purchases = {1, 2}
    /\ purchases[1].product_id # purchases[2].product_id
    /\ purchases[1].nft_token_id = purchases[2].nft_token_id
    /\ purchases[1].buyer # purchases[2].buyer

\* ---------------------------------------------------------------- C23
\* seq lists exactly the elements of S, in ascending order.
IsAscendingListOf(seq, S) ==
    /\ Len(seq) = Cardinality(S)
    /\ \A i \in 1..Len(seq) : seq[i] \in S
    /\ \A i, j \in 1..Len(seq) : i < j => seq[i] < seq[j]

\* old is the beginning of new.
IsPrefix(old, new) ==
    /\ Len(old) <= Len(new)
    /\ \A i \in 1..Len(old) : new[i] = old[i]

\* The indices list exactly the products of each seller and the purchases of
\* each buyer, ascending.
IndicesExact(st) ==
    \A a \in Addresses :
        /\ IsAscendingListOf(st.sellerProducts[a],
                             {id \in DOMAIN st.products : st.products[id].seller = a})
        /\ IsAscendingListOf(st.buyerPurchases[a],
                             {q \in DOMAIN st.purchases : st.purchases[q].buyer = a})

\* C23, as stated: the indices are exact, and every call leaves every index
\* unchanged or extended by one id at its end.
C23_Original ==
    /\ IndicesExact(State)
    /\ EveryGatedCall(State, LAMBDA r :
         LET after == Committed(State, r) IN
         \A a \in Addresses :
           /\ \/ after.sellerProducts[a] = sellerProducts[a]
              \/ \E x \in ProductIds : after.sellerProducts[a] = Append(sellerProducts[a], x)
           /\ \/ after.buyerPurchases[a] = buyerPurchases[a]
              \/ \E x \in 1..(purchaseCounter + 1) :
                     after.buyerPurchases[a] = Append(buyerPurchases[a], x))

\* C23, amended, in a state: the indices are exact, and every call leaves
\* every index unchanged or extended at its end; a seller index grows by at
\* most one id per call, a buyer index by one id per purchase of the call -
\* by one for buy_product, by the number of elements for a batch.
C23_IndicesExactAndExtended ==
    /\ IndicesExact(State)
    /\ EveryGatedCall(State, LAMBDA r :
         LET after == Committed(State, r) IN
         \A a \in Addresses :
              /\ IsPrefix(sellerProducts[a], after.sellerProducts[a])
              /\ Len(after.sellerProducts[a]) - Len(sellerProducts[a]) \in {0, 1}
              /\ IsPrefix(buyerPurchases[a], after.buyerPurchases[a])
              /\ Len(after.buyerPurchases[a]) - Len(buyerPurchases[a])
                   = Cardinality({q \in DOMAIN after.purchases \ DOMAIN purchases :
                                     after.purchases[q].buyer = a}))
    /\ EveryAdminCall(State, LAMBDA r :
         /\ Committed(State, r).sellerProducts = sellerProducts
         /\ Committed(State, r).buyerPurchases = buyerPurchases)
    /\ \A c \in Addresses, id \in ProductIds :
         LET r == buy_product(State, Signed(c), FALSE, c, id)
         IN  r.ok => r.st.buyerPurchases[c] = Append(buyerPurchases[c], r.ret)

\* C23, amended, in a step: no step removes or reorders an entry of an index.
C23_IndicesStep ==
    \A a \in Addresses :
        /\ IsPrefix(sellerProducts[a], sellerProducts'[a])
        /\ IsPrefix(buyerPurchases[a], buyerPurchases'[a])

\* C23, amended: the seller and buyer indices are exact and append-only.
C23_IndicesAppendOnly ==
    [] C23_IndicesExactAndExtended /\ [][C23_IndicesStep]_vars

\* One buyer's index holds two purchases, the seller's index holds both
\* products although both are sold; or two listed products that one buyer's
\* batch buys, appending two ids.
C23_Witness ==
    \/ \E b \in Addresses, a \in Addresses :
         /\ buyerPurchases[b] = <<1, 2>>
         /\ sellerProducts[a] = <<1, 2>>
         /\ SoldIds = {1, 2}
    \/ \E b \in Addresses :
         LET r == batch_buy_products(State, Signed(b), FALSE, b, <<1, 2>>)
         IN  r.ok /\ Len(r.st.buyerPurchases[b]) = Len(buyerPurchases[b]) + 2

\* ---------------------------------------------------------------- C24
\* The number of events of st with the given topic.
EventCount(st, topic) ==
    Cardinality({i \in DOMAIN st.events : st.events[i].topic = topic})

ListedEvent(seller, id) ==
    [topic |-> "ProductListed", key |-> <<seller, id>>, data |-> <<seller, id>>]

BoughtEvent(buyer, id) ==
    [topic |-> "ProductBought", key |-> <<buyer, id>>, data |-> <<buyer, id>>]

\* C24: a list_product that returns publishes exactly one listed event, keyed
\* by and carrying (seller, new product id); a buy_product that returns
\* publishes exactly one bought event, keyed by and carrying (buyer, new
\* purchase id), and a batch that returns one such event per element, in
\* order; every other call and every call that panics publishes nothing.  So
\* there are ProductCounter listed events and PurchaseCounter bought events.
C24_Events ==
    /\ EventCount(State, "ProductListed") = productCounter
    /\ EventCount(State, "ProductBought") = purchaseCounter
    /\ Len(events) = productCounter + purchaseCounter
    /\ EveryGatedCall(State, LAMBDA r : ~r.ok => Committed(State, r).events = events)
    /\ EveryAdminCall(State, LAMBDA r : Committed(State, r).events = events)
    /\ EveryInitializeCall(State, LAMBDA r : Committed(State, r).events = events)
    /\ \A c \in Addresses : \A auth \in AuthInputs(c), traps \in BOOLEAN :
         /\ \A price \in Prices, t \in TokenIds, m \in MetricsInputs :
              LET r == list_product(State, auth, traps, c, price, PaymentToken,
                                    NftContract, t, m)
              IN  r.ok => r.st.events = Append(events, ListedEvent(c, r.ret))
         /\ \A id \in ProductIds :
              /\ LET r == buy_product(State, auth, traps, c, id)
                 IN  r.ok => r.st.events = Append(events, BoughtEvent(c, r.ret))
              /\ LET r == unlist_product(State, auth, traps, c, id)
                 IN  r.ok => r.st.events = events
              /\ \A price \in PriceOptions, m \in MetricsOptions :
                   LET r == update_product(State, auth, c, id, price, m)
                   IN  r.ok => r.st.events = events
         /\ \A ids \in BatchInputs :
              LET r == batch_buy_products(State, auth, traps, c, ids)
              IN  r.ok => r.st.events =
                            events \o [i \in 1..Len(ids) |-> BoughtEvent(c, r.ret[i])]

\* Two listings and a purchase have been published, the last event being
\* the purchase, and a product was unlisted without an event.
C24_Witness ==
    /\ Len(events) = 3
    /\ events[3] = BoughtEvent(purchases[1].buyer, 1)
    /\ events[1].topic = "ProductListed" /\ events[2].topic = "ProductListed"
    /\ \E id \in DOMAIN products : ~products[id].is_listed /\ id \notin SoldIds

\* ---------------------------------------------------------------- C25
\* The invocations buy_product(buyer, ids[1]); ...; buy_product(buyer, ids[n]),
\* each committed before the next: the state reached and the ids returned.
RECURSIVE Singly(_, _, _, _, _, _)
Singly(st, auth, traps, buyer, ids, rets) ==
    IF ids = <<>> THEN Ok(st, rets)
    ELSE LET r == buy_product(st, auth, traps, buyer, Head(ids))
         IN  IF ~r.ok THEN Panic(st, r.err)
             ELSE Singly(Committed(st, r), auth, traps, buyer, Tail(ids),
                         Append(rets, r.ret))

\* C25: a batch_buy_products that returns, returns the purchase ids
\* PurchaseCounter + 1 .. PurchaseCounter + n, the i-th being the purchase of
\* the i-th product, and leaves the state, and returns the ids, that the n
\* single buy_product invocations in the same order leave and return.
C25_BatchIsSequence ==
    \A buyer \in Addresses, ids \in BatchInputs :
      \A auth \in AuthInputs(buyer), traps \in BOOLEAN :
        LET r == batch_buy_products(State, auth, traps, buyer, ids)
            single == Singly(State, auth, traps, buyer, ids, <<>>)
        IN  r.ok =>
              /\ r.ret = [i \in 1..Len(ids) |-> purchaseCounter + i]
              /\ \A i \in 1..Len(ids) :
                   /\ r.st.purchases[r.ret[i]].product_id = ids[i]
                   /\ r.st.purchases[r.ret[i]].buyer = buyer
                   /\ r.st.nftOwner[products[ids[i]].nft_token_id] = buyer
              /\ r.st.purchaseCounter = purchaseCounter + Len(ids)
              /\ single.ok /\ single.st = r.st /\ single.ret = r.ret

\* A purchase was made before, and a batch of products 2 and 1, in this order,
\* returns: product 2 is the first new purchase.  (With two products the
\* earlier purchase is of a product listed before one of these.)
C25_Witness ==
    \E buyer \in Addresses :
        LET r == batch_buy_products(State, Signed(buyer), FALSE, buyer, <<2, 1>>)
        IN  /\ r.ok /\ r.ret = <<purchaseCounter + 1, purchaseCounter + 2>>
            /\ r.st.purchases[purchaseCounter + 1].product_id = 2
            /\ products[1].price = 1010
            /\ r.st.balance[buyer] = balance[buyer] - 1010 - products[2].price

\* ---------------------------------------------------------------- C26
\* The record stored under a product id is a T.
Holds(n, id, type) == persistent_has(n, id) /\ persistent_val(n, id).type = type

\* The part of C26 the code enforces: list_for_sale and delist_product compare
\* their seller argument with the stored creator / seller, and a profile is
\* stored under its owner's address, so that no other owner's call reaches it.
C26_CheckedParts ==
    \A id \in NgoProductIds, who \in NgoAddresses :
        /\ \A price \in NgoPrices :
             list_for_sale(ngo, who, id, price).ok
                => Holds(ngo, id, "ImpactProduct") /\ persistent_val(ngo, id).creator = who
        /\ delist_product(ngo, who, id).ok
             => Holds(ngo, id, "MarketplaceListing") /\ persistent_val(ngo, id).seller = who
        /\ \A owner \in NgoAddresses \ {who} :
             Committed(ngo, _register_ngo(ngo, who, "ngo", "about")).profiles[owner]
                = ngo.profiles[owner]

\* purchase_nft alone: a listing is marked "Sold" by a caller other than its seller.
C26_PurchaseByOwnerOnly ==
    \A id \in NgoProductIds, who \in NgoAddresses :
        (Holds(ngo, id, "MarketplaceListing") /\ persistent_val(ngo, id).seller # who)
             => ~purchase_nft(ngo, who, id).ok

\* register_royalty alone: a royalty record is overwritten in another creator's name.
C26_RoyaltyByCreatorOnly ==
    \A id \in NgoProductIds, who \in NgoAddresses :
        (Holds(ngo, id, "RoyaltyInfo") /\ persistent_val(ngo, id).creator # who)
             => ~register_royalty(ngo, id, who, Market).ok

\* approve_product / reject_product alone: a decided verification record is
\* decided again by another verifier.
C26_VerificationByVerifierOnly ==
    \A id \in NgoProductIds, who \in NgoAddresses :
        ( /\ Holds(ngo, id, "VerificationQueue")
          /\ persistent_val(ngo, id).verifier \notin {NoneOpt, Some(who)} )
             => ~approve_product(ngo, id, who).ok /\ ~reject_product(ngo, id, who).ok

\* C26: in the ngo crate only the recorded owner may mutate a record:
\* list_for_sale returns only for the product's creator, delist_product only
\* for the listing's seller, and purchase_nft on a listing, register_royalty
\* over a royalty record, approve_product / reject_product on a verification
\* record that names a verifier, and _register_ngo over a profile are rejected
\* and leave the record as it was unless made in the name of the record's
\* seller, creator, verifier or owner.
C26_OnlyOwnerMutates ==
    /\ C26_CheckedParts
    /\ C26_PurchaseByOwnerOnly
    /\ C26_RoyaltyByCreatorOnly
    /\ C26_VerificationByVerifierOnly


\* ---------------------------------------------------------------- C27
\* C27: in every reachable state get_active_products returns exactly the
\* stored products with is_listed = TRUE in ascending id order,
\* get_all_products the products 1..ProductCounter in ascending id order,
\* get_seller_products / get_buyer_purchases the records of exactly the ids of
\* the address's index, in index order; and none of the queries changes state.
C27_QueryConsistency ==
    LET active == get_active_products(State)
        all == get_all_products(State)
    IN  /\ active.ok /\ all.ok
        /\ {active.ret[i] : i \in DOMAIN active.ret}
             = {products[id] : id \in {p \in DOMAIN products : products[p].is_listed}}
        /\ \A i, j \in DOMAIN active.ret : i < j => active.ret[i].id < active.ret[j].id
        /\ all.ret = [id \in 1..productCounter |-> products[id]]
        /\ \A id \in DOMAIN all.ret : all.ret[id].id = id
        /\ \A a \in Addresses :
             /\ get_seller_products(State, a).ok
             /\ get_seller_products(State, a).ret
                  = [i \in 1..Len(sellerProducts[a]) |-> products[sellerProducts[a][i]]]
             /\ get_buyer_purchases(State, a).ok
             /\ get_buyer_purchases(State, a).ret
                  = [i \in 1..Len(buyerPurchases[a]) |-> purchases[buyerPurchases[a][i]]]
             /\ get_seller_products(State, a).st = State
             /\ get_buyer_purchases(State, a).st = State
        /\ active.st = State /\ all.st = State
        /\ Committed(State, get_config(State)) = State
        /\ Committed(State, get_admin(State)) = State

\* Product 1 was sold and product 2 is listed: the active products are product
\* 2 alone, all products are both, and the buyer's history is one purchase.
C27_Witness ==
    /\ productCounter = 2 /\ ~products[1].is_listed /\ products[2].is_listed
    /\ get_active_products(State).ret = <<products[2]>>
    /\ get_all_products(State).ret = <<products[1], products[2]>>
    /\ \E a \in Addresses :
         /\ Len(get_buyer_purchases(State, a).ret) = 1
         /\ get_buyer_purchases(State, a).ret[1].product_id = 1
         /\ Len(get_seller_products(State, a).ret) = 1

\* ---------------------------------------------------------------- C28
\* The products stored for the NFT (nft_contract, nft_token_id).
ProductsOf(st, nft_contract, nft_token_id) ==
    {p \in DOMAIN st.products :
        /\ st.products[p].nft_contract = nft_contract
        /\ st.products[p].nft_token_id = nft_token_id}

\* C28: in every reachable state at most one product of any NFT
\* (nft_contract, nft_token_id) has is_listed = TRUE, and a list_product call
\* for an NFT returns only when every product stored for that NFT has
\* is_listed = FALSE; the new product is then the NFT's only listed one.
C28_NoDoubleListing ==
    /\ \A p, q \in DOMAIN products :
         ( /\ products[p].is_listed /\ products[q].is_listed
           /\ products[p].nft_contract = products[q].nft_contract
           /\ products[p].nft_token_id = products[q].nft_token_id ) => p = q
    /\ \A seller \in Addresses, t \in TokenIds, price \in Prices :
         \A auth \in AuthInputs(seller), traps \in BOOLEAN :
            LET r == list_product(State, auth, traps, seller, price, PaymentToken,
                                  NftContract, t, "{}")
            IN  r.ok =>
                  /\ \A p \in ProductsOf(State, NftContract, t) : ~products[p].is_listed
                  /\ {p \in ProductsOf(r.st, NftContract, t) : r.st.products[p].is_listed}
                       = {r.ret}

\* The buyer of product 1 has listed its NFT again as product 2: two products
\* of one NFT, the sold one not listed, the new one listed by the buyer.
C28_Witness ==
    /\ productCounter = 2 /\ purchaseCounter = 1
    /\ products[1].nft_token_id = products[2].nft_token_id
    /\ products[1].nft_contract = products[2].nft_contract
    /\ ~products[1].is_listed /\ products[2].is_listed
    /\ purchases[1].product_id = 1 /\ purchases[1].buyer = products[2].seller
    /\ products[2].seller # products[1].seller

\* ---------------------------------------------------------------- C29
\* The call that returned `r` took the NFT of the listed product id out of
\* custody by unlisting it: the NFT is with the product's seller, the product
\* is not listed and not sold, and no payment token moved.
LeftByUnlist(r, id) ==
    /\ r.st.nftOwner[products[id].nft_token_id] = products[id].seller
    /\ ~r.st.products[id].is_listed
    /\ \A q \in DOMAIN r.st.purchases : r.st.purchases[q].product_id # id
    /\ r.st.balance = balance
    /\ r.st.purchases = purchases

\* The call that returned `r` took the NFT of the listed product id out of
\* custody by a purchase: a new Purchase of the product at its price is stored,
\* the NFT is with its buyer, the product is not listed, and the seller has
\* received at least the price less the fee.
LeftByPurchase(r, id) ==
    \E q \in DOMAIN r.st.purchases \ DOMAIN purchases :
        LET purchase == r.st.purchases[q]
            seller == products[id].seller
        IN  /\ purchase.product_id = id
            /\ purchase.total_price = products[id].price
            /\ purchase.total_price >= 0
            /\ r.st.nftOwner[products[id].nft_token_id] = purchase.buyer
            /\ ~r.st.products[id].is_listed
            /\ r.st.balance[seller]
                 >= balance[seller] + purchase.total_price - purchase.platform_fee
            /\ r.st.balance[purchase.buyer] <= balance[purchase.buyer]

\* No call that returns takes the NFT of a listed product out of custody
\* otherwise than by unlisting or by purchase.
LeavesOnlyByUnlistOrPurchase(r) ==
    r.ok =>
        \A id \in DOMAIN products :
            ( /\ products[id].is_listed
              /\ r.st.nftOwner[products[id].nft_token_id] # Market )
                => LeftByUnlist(r, id) \/ LeftByPurchase(r, id)

NotListedIds(st) == {id \in DOMAIN st.products : ~st.products[id].is_listed}
UnlistedIds(st) ==
    NotListedIds(st) \ {st.purchases[q].product_id : q \in DOMAIN st.purchases}

\* C30, in a state: PurchaseCounter <= ProductCounter; every Purchase is of a
\* stored product that is not listed; PurchaseCounter is the number of
\* purchases and of products sold; and the products not listed are the sold
\* ones and the unlisted ones, their number the sum of both.
C30_Counters ==
    /\ purchaseCounter <= productCounter
    /\ DOMAIN purchases = 1..purchaseCounter
    /\ \A q \in DOMAIN purchases :
         /\ purchases[q].product_id \in DOMAIN products
         /\ ~products[purchases[q].product_id].is_listed
    /\ purchaseCounter = Cardinality(SoldIds)
    /\ Cardinality(NotListedIds(State)) = purchaseCounter + Cardinality(UnlistedIds(State))

\* C30, of the calls: an unlist_product that returns true adds one unlisted
\* product and no purchase; a buy_product that returns adds one purchase, a
\* batch one per id, and no unlisted product; no other call, and no call that
\* panics or returns false, changes either number.
C30_CountedByCalls ==
    LET unlisted(r) == Cardinality(UnlistedIds(Committed(State, r)))
        bought(r) == Committed(State, r).purchaseCounter
        same(r) == /\ unlisted(r) = Cardinality(UnlistedIds(State))
                   /\ bought(r) = purchaseCounter
    IN  /\ \A c \in Addresses : \A auth \in AuthInputs(c), traps \in BOOLEAN :
             /\ \A id \in ProductIds :
                  /\ LET r == unlist_product(State, auth, traps, c, id)
                     IN  IF r.ok /\ r.ret = TRUE
                         THEN /\ unlisted(r) = Cardinality(UnlistedIds(State)) + 1
                              /\ bought(r) = purchaseCounter
                         ELSE same(r)
                  /\ LET r == buy_product(State, auth, traps, c, id)
                     IN  IF r.ok
                         THEN /\ unlisted(r) = Cardinality(UnlistedIds(State))
                              /\ bought(r) = purchaseCounter + 1
                         ELSE same(r)
             /\ \A ids \in BatchInputs :
                  LET r == batch_buy_products(State, auth, traps, c, ids)
                  IN  IF r.ok
                      THEN /\ unlisted(r) = Cardinality(UnlistedIds(State))
                           /\ bought(r) = purchaseCounter + Len(ids)
                      ELSE same(r)
             /\ \A price \in Prices, t \in TokenIds, m \in MetricsInputs :
                  same(list_product(State, auth, traps, c, price, PaymentToken,
                                    NftContract, t, m))
             /\ \A id \in ProductIds, price \in PriceOptions, m \in MetricsOptions :
                  same(update_product(State, auth, c, id, price, m))
        /\ EveryAdminCall(State, same)
        /\ EveryInitializeCall(State, same)

\* C30: the counters are related in every reachable state: PurchaseCounter <=
\* ProductCounter, every Purchase refers to a stored product that is not
\* listed, PurchaseCounter is the number of products sold, and the number of
\* products not listed is the number of purchases plus the number of
\* unlistings, each purchase and each unlisting that took effect counted once.
C30_CounterRelation == C30_Counters /\ C30_CountedByCalls

\* One product was sold and one was unlisted: two products not listed, one
\* purchase, one unlisting.
C30_Witness ==
    /\ productCounter = 2 /\ purchaseCounter = 1
    /\ Cardinality(NotListedIds(State)) = 2
    /\ Cardinality(UnlistedIds(State)) = 1
    /\ Cardinality(SoldIds) = 1

\* ---------------------------------------------------------------- C31
\* The call panicked and the contract state is as it was.
FailedWithoutTrace(r) == ~r.ok /\ Committed(State, r) = State

\* C31: while initialize has not returned, every call of list_product,
\* unlist_product, buy_product, batch_buy_products, update_product,
\* pause_contract, unpause_contract, update_fee_percentage, get_config and
\* get_admin panics and leaves the state unchanged; and no product, purchase
\* or config is stored while no admin is.
C31_NothingBeforeInitialize ==
    /\ ~Initialized =>
         /\ EveryGatedCall(State, FailedWithoutTrace)
         /\ EveryAdminCall(State, FailedWithoutTrace)
         /\ FailedWithoutTrace(get_config(State))
         /\ FailedWithoutTrace(get_admin(State))
    /\ (products # <<>> \/ purchases # <<>> \/ config # NoneOpt
          \/ productCounter # 0 \/ purchaseCounter # 0) => Initialized

\* A contract that is not initialized: an initialize call with too high a fee
\* is refused, and the owner of an NFT cannot list it nor read the config.
C31_Witness ==
    /\ ~Initialized
    /\ ~initialize(State, Signed("a1"), "a1", MaxFeePercentage + 1).ok
    /\ list_product(State, Signed("a1"), FALSE, "a1", 1010, PaymentToken, NftContract,
                    "NFT001", "{}").err = "UnwrapNone"
    /\ batch_buy_products(State, Signed("a2"), FALSE, "a2", <<>>).err = "UnwrapNone"
    /\ get_config(State).err = "UnwrapNone"

\* ---------------------------------------------------------------- C32
\* Some product id occurs twice in ids.
HasDuplicate(ids) == \E i, j \in 1..Len(ids) : i < j /\ ids[i] = ids[j]

\* A batch with a duplicate id panics, whoever calls it and in whatever state,
\* and nothing of it is kept: products, purchases, NFTs and balances are as
\* they were; if the batch comes to the second occurrence, the error is
\* ProductNotListed.
DuplicatesAbort ==
    \A buyer \in Addresses, ids \in BatchInputs : HasDuplicate(ids) =>
        \A auth \in AuthInputs(buyer), traps \in BOOLEAN :
            LET r == batch_buy_products(State, auth, traps, buyer, ids)
                first == CHOOSE i \in 1..Len(ids) : \E j \in (i + 1)..Len(ids) : ids[i] = ids[j]
                second == CHOOSE j \in (first + 1)..Len(ids) : ids[j] = ids[first]
                upto == Singly(State, auth, traps, buyer, SubSeq(ids, 1, second - 1), <<>>)
            IN  /\ ~r.ok
                /\ Committed(State, r) = State
                /\ upto.ok => r.err = "ProductNotListed"

\* C32, as stated: a batch with a duplicate id always fails and is rolled
\* back, and on an initialized contract the empty batch signed by its buyer
\* returns the empty list and changes no state.
C32_Original ==
    /\ DuplicatesAbort
    /\ Initialized =>
         \A buyer \in Addresses :
            LET r == batch_buy_products(State, Signed(buyer), FALSE, buyer, <<>>)
            IN  r.ok /\ r.ret = <<>> /\ r.st = State

\* C32: a batch with a duplicate id always fails - with ProductNotListed at the
\* second occurrence if it gets that far - and is rolled back, the product
\* still listed and no token moved; on a contract that is not paused the empty
\* batch signed by its buyer returns the empty list and changes no state, and
\* on a paused one it fails with ContractPaused.
C32_DuplicateOrEmptyBatch ==
    /\ DuplicatesAbort
    /\ \A buyer \in Addresses :
         LET r == batch_buy_products(State, Signed(buyer), FALSE, buyer, <<>>)
         IN  /\ Unpaused => r.ok /\ r.ret = <<>> /\ r.st = State
             /\ Paused => ~r.ok /\ r.err = "ContractPaused"

\* A buyer who can buy product 1 alone asks for it twice: the batch fails with
\* ProductNotListed, while the empty batch returns.
C32_Witness ==
    \E buyer \in Addresses :
        /\ buy_product(State, Signed(buyer), FALSE, buyer, 1).ok
        /\ products[1].price = 1010
        /\ batch_buy_products(State, Signed(buyer), FALSE, buyer, <<1, 1>>).err
             = "ProductNotListed"
        /\ batch_buy_products(State, Signed(buyer), FALSE, buyer, <<>>).ok

\* ---------------------------------------------------------------- C33
\* C33: on an initialized contract a signed buy_product reports the first
\* check that fails in the order pause, existence, is_listed, buyer = seller,
\* balance: on a contract that is not paused a seller buying their own product
\* that is not listed gets ProductNotListed, and a seller who cannot afford
\* their own listed product gets CannotBuyOwnNFT; and a signed unlist_product
\* looks at the caller before is_listed: a caller who is neither the seller nor
\* the admin gets Unauthorized on a product that is not listed.
C33_CheckOrder ==
    Initialized =>
      \A c \in Addresses, id \in ProductIds, traps \in BOOLEAN :
        LET bought == buy_product(State, Signed(c), traps, c, id)
            unlisted == unlist_product(State, Signed(c), traps, c, id)
        IN  /\ IF Paused THEN ~bought.ok /\ bought.err = "ContractPaused"
               ELSE IF id \notin DOMAIN products
                    THEN ~bought.ok /\ bought.err = "ProductNotFound"
               ELSE IF ~products[id].is_listed
                    THEN ~bought.ok /\ bought.err = "ProductNotListed"
               ELSE IF products[id].seller = c
                    THEN ~bought.ok /\ bought.err = "CannotBuyOwnNFT"
               ELSE IF balance[c] < products[id].price
                    THEN ~bought.ok /\ bought.err = "InsufficientFunds"
               ELSE bought.ok \/ bought.err \in {"TokenTransferFailed", "NftTransferFailed"}
            /\ IF Paused THEN ~unlisted.ok /\ unlisted.err = "ContractPaused"
               ELSE IF id \notin DOMAIN products
                    THEN ~unlisted.ok /\ unlisted.err = "ProductNotFound"
               ELSE IF products[id].seller # c /\ admin # c
                    THEN ~unlisted.ok /\ unlisted.err = "Unauthorized"
               ELSE IF ~products[id].is_listed
                    THEN unlisted.ok /\ unlisted.ret = FALSE
               ELSE TRUE

\* Product 1 was sold and its buyer, left with less than the price, has listed
\* the NFT again as product 2: the seller of product 1 buying it gets
\* ProductNotListed, the seller of product 2 buying it gets CannotBuyOwnNFT,
\* and the latter, who is not the admin, unlisting product 1 gets Unauthorized.
C33_Witness ==
    /\ Unpaused /\ productCounter = 2
    /\ ~products[1].is_listed /\ products[2].is_listed
    /\ LET s1 == products[1].seller
           s2 == products[2].seller
       IN  /\ buy_product(State, Signed(s1), FALSE, s1, 1).err = "ProductNotListed"
           /\ balance[s2] < products[2].price
           /\ buy_product(State, Signed(s2), FALSE, s2, 2).err = "CannotBuyOwnNFT"
           /\ s2 # s1 /\ s2 # admin
           /\ unlist_product(State, Signed(s2), FALSE, s2, 1).err = "Unauthorized"

\* ---------------------------------------------------------------- C34
\* C34: list_product and update_product take any price: whether the call
\* returns does not depend on the price, zero and negative prices included,
\* and the price given is the price stored; and on a contract that is not
\* paused, a product listed at price 0 is bought by a signed buyer who is not
\* its seller and holds no payment token: the purchase records price 0 and fee
\* 0, no balance changes and the NFT goes to the buyer.
C34_PricesNotValidated ==
    /\ \A c \in Addresses : \A auth \in AuthInputs(c) :
         /\ \A t \in TokenIds, traps \in BOOLEAN, p \in Prices :
              LET r == list_product(State, auth, traps, c, p, PaymentToken, NftContract,
                                    t, "{}")
              IN  /\ r.ok => r.st.products[r.ret].price = p /\ r.st.products[r.ret].is_listed
                  /\ \A p2 \in Prices :
                       list_product(State, auth, traps, c, p2, PaymentToken, NftContract,
                                    t, "{}").ok = r.ok
         /\ \A id \in ProductIds, p \in Prices :
              LET r == update_product(State, auth, c, id, Some(p), NoneOpt)
              IN  /\ r.ok => r.st.products[id].price = p /\ r.st.products[id].is_listed
                  /\ \A p2 \in Prices :
                       update_product(State, auth, c, id, Some(p2), NoneOpt).ok = r.ok
    /\ Unpaused =>
         \A id \in DOMAIN products, buyer \in Addresses :
            ( /\ products[id].is_listed /\ products[id].price = 0
              /\ products[id].seller # buyer /\ balance[buyer] = 0 ) =>
                LET r == buy_product(State, Signed(buyer), FALSE, buyer, id)
                IN  /\ r.ok
                    /\ r.st.purchases[r.ret].total_price = 0
                    /\ r.st.purchases[r.ret].platform_fee = 0
                    /\ r.st.balance = balance
                    /\ r.st.nftOwner[products[id].nft_token_id] = buyer

\* A product is listed at price 0, its seller may set the price to -40, and a
\* buyer whose balance is 0 after an earlier purchase can buy it.
C34_Witness ==
    /\ Unpaused /\ purchaseCounter = 1
    /\ \E id \in DOMAIN products, buyer \in Addresses :
         LET seller == products[id].seller IN
         /\ products[id].is_listed /\ products[id].price = 0
         /\ buyer # seller /\ balance[buyer] = 0 /\ purchases[1].buyer = buyer
         /\ buy_product(State, Signed(buyer), FALSE, buyer, id).ok
         /\ update_product(State, Signed(seller), seller, id, Some(-40), NoneOpt)
              .st.products[id].price = -40

\* A product with a negative price is listed.
C34_NegativePriceListed ==
    \E id \in DOMAIN products : products[id].is_listed /\ products[id].price < 0

\* ---------------------------------------------------------------- C35
\* The record under the product id is a MarketplaceListing of this status.
ListingIs(n, id, status) ==
    Holds(n, id, "MarketplaceListing") /\ persistent_val(n, id).status = status

\* P holds of the result of every call of the ngo crate's functions in n.
EveryNgoCall(n, P(_)) ==
    /\ \A a \in NgoAddresses :
         /\ P(ngo_initialize(n, a))
         /\ P(create_impact_product(n, a, "ipfs://m", 10, 50))
         /\ P(_register_ngo(n, a, "ngo", "about"))
         /\ \A id \in NgoProductIds :
              /\ \A price \in NgoPrices : P(list_for_sale(n, a, id, price))
              /\ P(purchase_nft(n, a, id))
              /\ P(delist_product(n, a, id))
              /\ P(register_royalty(n, id, a, Market))
              /\ P(approve_product(n, id, a))
              /\ P(reject_product(n, id, a))
    /\ \A id \in NgoProductIds : P(submit_for_verification(n, id))

C35_ProductIdListedOnce ==
    [](ListingIs(ngo, 1, "Sold") => [] ~ListingIs(ngo, 1, "Unsold"))
====
